---- MODULE Spec2Model ----
(***************************************************************************)
(* GeoPackage geometry decoder of gpkg.c: the GPKG binary header, the WKB  *)
(* envelope walk (ST_MinX .. ST_MaxM) and the WKB emptiness walk           *)
(* (ST_IsEmpty), over a byte blob; and the spatial index of a table        *)
(* (GPKG_AddSpatialIndex, GPKG_DropSpatialIndex, the seven triggers).      *)
(*                                                                         *)
(* A double is its IEEE-754 bit pattern, written as the tuple of its 8     *)
(* bytes, most significant byte first.  An int is a signed 32-bit value.   *)
(* Memory is the blob followed by whatever the heap holds around it.       *)
(***************************************************************************)
EXTENDS Integers, Sequences, FiniteSets, TLC

VARIABLES host,       \* byte order of the CPU, what endian() returns
          useHeader,  \* TRUE iff the build defines GPKG_ALLWAYS_USE_HEADER
          heap,       \* memory outside the blob and uninitialised locals
          fn,         \* the SQL function of the last call ("" before any)
          arg,        \* the argument of the last call
          run,        \* what the last call did: returns, cursor, reads
          db          \* the database: the table's rows, the spatial index

vars == <<host, useHeader, heap, fn, arg, run, db>>

\* ------------------------------------------------------------ constants
LITTLE_ENDIAN == 1
BIG_ENDIAN == 0

GPKG_MAGIC1 == 71
GPKG_MAGIC2 == 80
GPKG_VERSION == 0
GPKG_EMPTY_BIT == 16
GPKG_ENV_BITS == 14
GPKG_BYTEORDER_BIT == 1

wkbGeometry == 0
wkbPoint == 1
wkbLineString == 2
wkbPolygon == 3
wkbMultiPoint == 4
wkbMultiLineString == 5
wkbMultiPolygon == 6
wkbGeometryCollection == 7

X == 0
Y == 1
Z == 2
M == 3

MIN == 0
MAX == 1

\* ------------------------------------------------ 32-bit int arithmetic
Two31m == 2147483647                 \* INT_MAX

\* a + b in 32-bit two's complement (wraps on overflow)
Add32(a, b) ==
  IF a > 0 /\ b > 0 /\ a > Two31m - b
    THEN ((a - Two31m) - 1) + ((b - Two31m) - 1)
  ELSE IF a < 0 /\ b < 0 /\ a < ((0 - Two31m) - 1) - b
    THEN ((a + Two31m) + 1) + ((b + Two31m) + 1)
  ELSE a + b

\* n * dimension * 8 in 32-bit two's complement, dimension in 2..4
MulDim8(n, dimension) ==
  LET r == n % 536870912                        \* low 29 bits of n
      s == (r * dimension) % 536870912
  IN  IF s >= 268435456 THEN (s - 536870912) * 8 ELSE s * 8

\* the low 31 bits of an int
Low31(v) == IF v < 0 THEN (v + Two31m) + 1 ELSE v

\* ----------------------------------------------------- IEEE-754 doubles
isnan(d) ==
  /\ d[1] % 128 = 127
  /\ d[2] \div 16 = 15
  /\ \/ d[2] % 16 # 0
     \/ \E i \in 3..8 : d[i] # 0

IsZero(d) == d[1] % 128 = 0 /\ \A i \in 2..8 : d[i] = 0

RECURSIVE MagLess(_, _, _)
\* magnitude of a below magnitude of b, comparing from byte i on
MagLess(a, b, i) ==
  IF i > 8 THEN FALSE
  ELSE LET ai == IF i = 1 THEN a[1] % 128 ELSE a[i]
           bi == IF i = 1 THEN b[1] % 128 ELSE b[i]
       IN  IF ai < bi THEN TRUE
           ELSE IF ai > bi THEN FALSE
           ELSE MagLess(a, b, i + 1)

\* the C comparison a < b on doubles: false when either is NaN
DblLess(a, b) ==
  IF isnan(a) \/ isnan(b) THEN FALSE
  ELSE IF IsZero(a) /\ IsZero(b) THEN FALSE
  ELSE LET na == a[1] >= 128
           nb == b[1] >= 128
       IN  IF na /\ ~nb THEN TRUE
           ELSE IF ~na /\ nb THEN FALSE
           ELSE IF na THEN MagLess(b, a, 1)
           ELSE MagLess(a, b, 1)

\* ------------------------------------------------------------- memory
\* e's value handed to Body: a C local, computed once
Bind(e, Body(_)) == CHOOSE r \in {Body(x) : x \in {e}} : TRUE

\* the byte at p_blob[i]: inside the blob its byte, outside what the heap
\* holds there
Mem(p_blob, i) ==
  IF i >= 0 /\ i < Len(p_blob) THEN p_blob[i + 1]
  ELSE IF i >= Len(p_blob) /\ i - Len(p_blob) < Len(heap.after)
    THEN heap.after[(i - Len(p_blob)) + 1]
  ELSE heap.fill

\* the walker's registers: the cursor *index, the out-parameter *res, and
\* history fields: the offsets read outside the blob, the values the cursor
\* has taken, the arguments of the readWKBGeometryEnv / isEmptyWKBGeometry
\* frames on the stack, the most frames there have been, and whether a frame
\* was called with the arguments of a frame still on the stack
Start(p_blob, res0) ==
  [index |-> 0, res |-> res0, n |-> Len(p_blob), oob |-> {}, trail |-> <<0>>,
   open |-> {}, deep |-> 0, diverged |-> FALSE]

\* a frame of readWKBGeometryEnv or isEmptyWKBGeometry with arguments args
\* is pushed
Enter(st, args) ==
  [st EXCEPT !.open = @ \cup {args},
             !.deep = IF Cardinality(st.open) + 1 > @ THEN Cardinality(st.open) + 1 ELSE @]

\* the frame entered with registers st returns r
Leave(r, st) == [r EXCEPT !.st.open = st.open]

\* a frame is called with the arguments of a frame that has not returned:
\* the memory it reads is the same, so it makes the same call again, and the
\* recursion goes on until the stack is exhausted
Recurse(st) == [ret |-> -1, st |-> [st EXCEPT !.diverged = TRUE]]

Touch(st, lo, width) ==
  [st EXCEPT !.oob = @ \cup {i \in lo..(lo + width - 1) : i < 0 \/ i >= st.n}]

Advance(st, delta) ==
  [st EXCEPT !.index = Add32(@, delta),
             !.trail = Append(@, Add32(st.index, delta))]

endian == host

\* *(int*)bytes on this CPU
NativeInt(b) ==
  IF host = LITTLE_ENDIAN
    THEN b[1] + 256 * b[2] + 65536 * b[3]
         + 16777216 * (IF b[4] >= 128 THEN b[4] - 256 ELSE b[4])
  ELSE b[4] + 256 * b[3] + 65536 * b[2]
       + 16777216 * (IF b[1] >= 128 THEN b[1] - 256 ELSE b[1])

\* *(double*)bytes on this CPU
NativeDouble(b) ==
  IF host = LITTLE_ENDIAN
    THEN <<b[8], b[7], b[6], b[5], b[4], b[3], b[2], b[1]>>
  ELSE b

\* the bytes p_blob[i .. i+width-1], reversed unless byteOrder is the CPU's
Fetch(p_blob, i, width, byteOrder) ==
  IF byteOrder = endian THEN [k \in 1..width |-> Mem(p_blob, i + k - 1)]
  ELSE [k \in 1..width |-> Mem(p_blob, i + width - k)]

getInt(p_blob, st, byteOrder) ==
  [v |-> Bind(Fetch(p_blob, st.index, 4, byteOrder), LAMBDA b : NativeInt(b)),
   st |-> Advance(Touch(st, st.index, 4), 4)]

getDouble(p_blob, st, byteOrder) ==
  [v |-> Bind(Fetch(p_blob, st.index, 8, byteOrder), LAMBDA b : NativeDouble(b)),
   st |-> Advance(Touch(st, st.index, 8), 8)]

\* p_blob[(*index)++]
getByte(p_blob, st) ==
  [v |-> Mem(p_blob, st.index), st |-> Advance(Touch(st, st.index, 1), 1)]

\* --------------------------------------------------- WKB envelope walk
\* a function's return value and the registers it leaves
Ret(ret, st) == [ret |-> ret, st |-> st]

\* a call that passes &res2 instead of res: the callee works on res2
WithRes(st, r) == [st EXCEPT !.res = r]

\* FoldExtreme with the two comparisons exchanged
FoldExtremeSwapped(res, res2, maxmin) ==
  IF maxmin = MIN
    THEN (IF DblLess(res, res2) THEN res2 ELSE res)
  ELSE (IF DblLess(res2, res) THEN res2 ELSE res)

\* if (maxmin == MIN) { if (res2 < *res) *res = res2; }
\* else               { if (res2 > *res) *res = res2; }
FoldExtreme(res, res2, maxmin) ==
  IF maxmin = MIN
    THEN (IF DblLess(res2, res) THEN res2 ELSE res)
  ELSE (IF DblLess(res, res2) THEN res2 ELSE res)

readWKBPointOrd(p_blob, n_bytes, st, byteOrder, dimension, ordinate) ==
  IF Add32(st.index, dimension * 8) > n_bytes THEN Ret(0, st)
  ELSE Bind(getDouble(p_blob, Advance(st, ordinate * 8), byteOrder), LAMBDA g :
         Ret(1, Advance(WithRes(g.st, g.v), (dimension - ordinate - 1) * 8)))

RECURSIVE LineStringEnvLoop(_, _, _, _, _, _, _, _, _, _)
\* for (int i = 1; i < numPoints; i++) of readWKBLineStringEnv
LineStringEnvLoop(p_blob, n_bytes, st, byteOrder, dimension, ordinate, maxmin, i, numPoints, res2) ==
  IF ~(i < numPoints) THEN Ret(1, st)
  ELSE Bind(readWKBPointOrd(p_blob, n_bytes, WithRes(st, res2), byteOrder, dimension, ordinate), LAMBDA r :
         IF r.ret = 0 THEN Ret(0, WithRes(r.st, st.res))
         ELSE Bind(WithRes(r.st, FoldExtreme(st.res, r.st.res, maxmin)), LAMBDA s2 :
                LineStringEnvLoop(p_blob, n_bytes, s2, byteOrder, dimension, ordinate, maxmin, i + 1, numPoints, r.st.res)))

readWKBLineStringEnv(p_blob, n_bytes, st, byteOrder, dimension, ordinate, maxmin) ==
  Bind(getInt(p_blob, st, byteOrder), LAMBDA g :
    \* g.v is numPoints
    IF g.v < 1 THEN Ret(0, g.st)
    ELSE IF Add32(g.st.index, MulDim8(g.v, dimension)) > n_bytes THEN Ret(0, g.st)
    ELSE Bind(readWKBPointOrd(p_blob, n_bytes, g.st, byteOrder, dimension, ordinate), LAMBDA p :
           IF p.ret = 0 THEN p
           ELSE LineStringEnvLoop(p_blob, n_bytes, p.st, byteOrder, dimension, ordinate, maxmin, 1, g.v, heap.junk)))

skipWKBLineString(p_blob, n_bytes, st, byteOrder, dimension) ==
  Bind(getInt(p_blob, st, byteOrder), LAMBDA g :
    \* g.v is numPoints
    IF g.v < 1 THEN Ret(0, g.st)
    ELSE IF Add32(g.st.index, MulDim8(g.v, dimension)) > n_bytes THEN Ret(0, g.st)
    ELSE Ret(1, Advance(g.st, MulDim8(g.v, dimension))))

RECURSIVE PolygonSkipLoop(_, _, _, _, _, _, _)
\* for (int i = 1; i < numRings; i++) skipWKBLineString, of readWKBPolygonEnv
PolygonSkipLoop(p_blob, n_bytes, st, byteOrder, dimension, i, numRings) ==
  IF ~(i < numRings) THEN Ret(1, st)
  ELSE Bind(skipWKBLineString(p_blob, n_bytes, st, byteOrder, dimension), LAMBDA r :
         IF r.ret = 0 THEN r
         ELSE PolygonSkipLoop(p_blob, n_bytes, r.st, byteOrder, dimension, i + 1, numRings))

RECURSIVE PolygonEnvLoop(_, _, _, _, _, _, _, _, _, _)
\* for (int i = 1; i < numRings; i++) readWKBLineStringEnv(&res2)
PolygonEnvLoop(p_blob, n_bytes, st, byteOrder, dimension, ordinate, maxmin, i, numRings, res2) ==
  IF ~(i < numRings) THEN Ret(1, st)
  ELSE Bind(readWKBLineStringEnv(p_blob, n_bytes, WithRes(st, res2), byteOrder, dimension, ordinate, maxmin), LAMBDA r :
         IF r.ret = 0 THEN Ret(0, WithRes(r.st, st.res))
         ELSE Bind(WithRes(r.st, FoldExtreme(st.res, r.st.res, maxmin)), LAMBDA s2 :
                PolygonEnvLoop(p_blob, n_bytes, s2, byteOrder, dimension, ordinate, maxmin, i + 1, numRings, r.st.res)))

readWKBPolygonEnv(p_blob, n_bytes, st, byteOrder, dimension, ordinate, maxmin) ==
  Bind(getInt(p_blob, st, byteOrder), LAMBDA g :
    \* g.v is numRings
    IF g.v < 1 THEN Ret(0, g.st)
    ELSE Bind(readWKBLineStringEnv(p_blob, n_bytes, g.st, byteOrder, dimension, ordinate, maxmin), LAMBDA r :
           IF r.ret = 0 THEN r
           ELSE IF ordinate < Z
             THEN PolygonSkipLoop(p_blob, n_bytes, r.st, byteOrder, dimension, 1, g.v)
           ELSE PolygonEnvLoop(p_blob, n_bytes, r.st, byteOrder, dimension, ordinate, maxmin, 1, g.v, heap.junk)))

RECURSIVE readWKBGeometryEnv(_, _, _, _, _, _, _)
RECURSIVE ElementsEnvLoop(_, _, _, _, _, _, _, _, _, _)
\* for (int i = 1; i < numGeoms; i++) readWKBGeometryEnv(&res2), the loop
\* of the four Multi*/Collection envelope readers
ElementsEnvLoop(p_blob, n_bytes, st, byteOrder, ordinate, maxmin, geometryTypeExpected, i, numGeoms, res2) ==
  IF ~(i < numGeoms) THEN Ret(1, st)
  ELSE Bind(readWKBGeometryEnv(p_blob, n_bytes, WithRes(st, res2), byteOrder, ordinate, maxmin, geometryTypeExpected), LAMBDA r :
         IF r.ret = 0 THEN Ret(0, WithRes(r.st, st.res))
         ELSE Bind(WithRes(r.st, FoldExtreme(st.res, r.st.res, maxmin)), LAMBDA s2 :
                ElementsEnvLoop(p_blob, n_bytes, s2, byteOrder, ordinate, maxmin, geometryTypeExpected, i + 1, numGeoms, r.st.res)))

\* the common body of readWKBMultiPointEnv, readWKBMultiLineStringEnv,
\* readWKBMultiPolygonEnv and readWKBGeometryCollectionEnv
ElementsEnv(p_blob, n_bytes, st, byteOrder, ordinate, maxmin, geometryTypeExpected) ==
  Bind(getInt(p_blob, st, byteOrder), LAMBDA g :
    \* g.v is numGeoms
    IF g.v < 1 THEN Ret(0, g.st)
    ELSE Bind(readWKBGeometryEnv(p_blob, n_bytes, g.st, byteOrder, ordinate, maxmin, geometryTypeExpected), LAMBDA r :
           IF r.ret = 0 THEN r
           ELSE ElementsEnvLoop(p_blob, n_bytes, r.st, byteOrder, ordinate, maxmin, geometryTypeExpected, 1, g.v, heap.junk)))

readWKBMultiPointEnv(p_blob, n_bytes, st, byteOrder, dimension, ordinate, maxmin) ==
  ElementsEnv(p_blob, n_bytes, st, byteOrder, ordinate, maxmin, wkbPoint)

readWKBMultiLineStringEnv(p_blob, n_bytes, st, byteOrder, dimension, ordinate, maxmin) ==
  ElementsEnv(p_blob, n_bytes, st, byteOrder, ordinate, maxmin, wkbLineString)

readWKBMultiPolygonEnv(p_blob, n_bytes, st, byteOrder, dimension, ordinate, maxmin) ==
  ElementsEnv(p_blob, n_bytes, st, byteOrder, ordinate, maxmin, wkbPolygon)

readWKBGeometryCollectionEnv(p_blob, n_bytes, st, byteOrder, dimension, ordinate, maxmin) ==
  ElementsEnv(p_blob, n_bytes, st, byteOrder, ordinate, maxmin, wkbGeometry)

\* TypeHasZ that knows the ISO thousands only
TypeHasZIso(typeInt) ==
  \/ (Low31(typeInt) % 65536) \div 1000 = 1
  \/ (Low31(typeInt) % 65536) \div 1000 = 3

\* the type code's fields
TypeHasZ(typeInt) ==
  \/ typeInt < 0
  \/ (Low31(typeInt) % 65536) \div 1000 = 1
  \/ (Low31(typeInt) % 65536) \div 1000 = 3

TypeHasM(typeInt) ==
  \/ Low31(typeInt) >= 1073741824
  \/ (Low31(typeInt) % 65536) \div 1000 = 2
  \/ (Low31(typeInt) % 65536) \div 1000 = 3

TypeHasSRID(typeInt) == (Low31(typeInt) % 1073741824) >= 536870912

TypeDimension(typeInt) ==
  2 + (IF TypeHasZ(typeInt) THEN 1 ELSE 0)
    + (IF TypeHasM(typeInt) THEN 1 ELSE 0)

TypeGeometry(typeInt) == (Low31(typeInt) % 65536) % 1000

\* the ordinate readWKBGeometryEnv reads, or -1 for "return 0"
EnvOrdinate(dimension, ordinate) ==
  IF dimension = 3 /\ ordinate = M THEN Z
  ELSE IF dimension < ordinate THEN -1
  ELSE ordinate

\* RecordOrder that takes a byte other than 0 and 1 for little-endian
RecordOrderStrict(newByteOrder, byteOrder) ==
  IF newByteOrder = BIG_ENDIAN THEN BIG_ENDIAN ELSE LITTLE_ENDIAN

\* if (newByteOrder == LITTLE_ENDIAN || newByteOrder == BIG_ENDIAN)
\*     byteOrder = newByteOrder;
RecordOrder(newByteOrder, byteOrder) ==
  IF newByteOrder = LITTLE_ENDIAN \/ newByteOrder = BIG_ENDIAN
    THEN newByteOrder
  ELSE byteOrder

\* if (hasSRID) *index += 4;
SkipSRID(st, typeInt) == IF TypeHasSRID(typeInt) THEN Advance(st, 4) ELSE st

\* the switch (geometryType) of readWKBGeometryEnv
EnvDispatch(p_blob, n_bytes, st, byteOrder, dimension, ordinate, maxmin, geometryType) ==
  CASE geometryType = wkbPoint ->
         readWKBPointOrd(p_blob, n_bytes, st, byteOrder, dimension, ordinate)
    [] geometryType = wkbLineString ->
         readWKBLineStringEnv(p_blob, n_bytes, st, byteOrder, dimension, ordinate, maxmin)
    [] geometryType = wkbPolygon ->
         readWKBPolygonEnv(p_blob, n_bytes, st, byteOrder, dimension, ordinate, maxmin)
    [] geometryType = wkbMultiPoint ->
         readWKBMultiPointEnv(p_blob, n_bytes, st, byteOrder, dimension, ordinate, maxmin)
    [] geometryType = wkbMultiLineString ->
         readWKBMultiLineStringEnv(p_blob, n_bytes, st, byteOrder, dimension, ordinate, maxmin)
    [] geometryType = wkbMultiPolygon ->
         readWKBMultiPolygonEnv(p_blob, n_bytes, st, byteOrder, dimension, ordinate, maxmin)
    [] geometryType = wkbGeometryCollection ->
         readWKBGeometryCollectionEnv(p_blob, n_bytes, st, byteOrder, dimension, ordinate, maxmin)
    [] OTHER -> Ret(0, st)

readWKBGeometryEnv(p_blob, n_bytes, st, byteOrder, ordinate, maxmin, geometryTypeExpected) ==
  IF <<st.index, st.res, byteOrder, ordinate, maxmin, geometryTypeExpected>> \in st.open
    THEN Recurse(st)
  ELSE
  Leave(Bind(getByte(p_blob, Enter(st, <<st.index, st.res, byteOrder, ordinate, maxmin, geometryTypeExpected>>)), LAMBDA b :
    Bind(RecordOrder(b.v, byteOrder), LAMBDA order :
      Bind(getInt(p_blob, b.st, order), LAMBDA t :
        \* t.v is typeInt
        Bind(EnvOrdinate(TypeDimension(t.v), ordinate), LAMBDA ord :
          IF ord = -1 THEN Ret(0, t.st)
          ELSE Bind(SkipSRID(t.st, t.v), LAMBDA s1 :
                 IF geometryTypeExpected # wkbGeometry /\ geometryTypeExpected # TypeGeometry(t.v)
                   THEN Ret(0, s1)
                 ELSE EnvDispatch(p_blob, n_bytes, s1, order, TypeDimension(t.v), ord, maxmin, TypeGeometry(t.v))))))), st)

\* -------------------------------------------------- WKB emptiness walk
RECURSIVE PointEmptyLoop(_, _, _, _, _)
\* for (int i = 0; i < dimension; i++) of isEmptyWKBPoint
PointEmptyLoop(p_blob, st, byteOrder, dimension, i) ==
  IF ~(i < dimension) THEN Ret(1, st)
  ELSE Bind(getDouble(p_blob, st, byteOrder), LAMBDA g :
         IF ~isnan(g.v) THEN Ret(0, Advance(g.st, (dimension - i - 1) * 8))
         ELSE PointEmptyLoop(p_blob, g.st, byteOrder, dimension, i + 1))

isEmptyWKBPoint(p_blob, n_bytes, st, byteOrder, dimension) ==
  IF Add32(st.index, dimension * 8) > n_bytes THEN Ret(-1, st)
  ELSE PointEmptyLoop(p_blob, st, byteOrder, dimension, 0)

isEmptyWKBLineString(p_blob, n_bytes, st, byteOrder, dimension) ==
  Bind(getInt(p_blob, st, byteOrder), LAMBDA g :
    \* g.v is numPoints
    IF g.v < 1 THEN Ret(1, g.st)
    ELSE IF Add32(g.st.index, MulDim8(g.v, dimension)) > n_bytes THEN Ret(-1, g.st)
    ELSE Ret(0, Advance(g.st, MulDim8(g.v, dimension))))

RECURSIVE PolygonEmptyLoop(_, _, _, _, _, _, _)
\* for (int i = 0; i < numRings; i++) skipWKBLineString, of isEmptyWKBPolygon
PolygonEmptyLoop(p_blob, n_bytes, st, byteOrder, dimension, i, numRings) ==
  IF ~(i < numRings) THEN Ret(0, st)
  ELSE Bind(skipWKBLineString(p_blob, n_bytes, st, byteOrder, dimension), LAMBDA r :
         IF r.ret = 0 THEN Ret(-1, r.st)
         ELSE PolygonEmptyLoop(p_blob, n_bytes, r.st, byteOrder, dimension, i + 1, numRings))

isEmptyWKBPolygon(p_blob, n_bytes, st, byteOrder, dimension) ==
  Bind(getInt(p_blob, st, byteOrder), LAMBDA g :
    \* g.v is numRings
    IF g.v < 1 THEN Ret(-1, g.st)
    ELSE IF g.v = 1 THEN isEmptyWKBLineString(p_blob, n_bytes, g.st, byteOrder, dimension)
    ELSE PolygonEmptyLoop(p_blob, n_bytes, g.st, byteOrder, dimension, 0, g.v))

RECURSIVE isEmptyWKBGeometry(_, _, _, _, _)
RECURSIVE ElementsEmptyLoop(_, _, _, _, _, _, _, _)
\* for (int i = 0; i < numGeoms; i++) of the four Multi*/Collection tests
ElementsEmptyLoop(p_blob, n_bytes, st, byteOrder, geometryTypeExpected, i, numGeoms, res) ==
  IF ~(i < numGeoms) THEN Ret(res, st)
  ELSE Bind(isEmptyWKBGeometry(p_blob, n_bytes, st, byteOrder, geometryTypeExpected), LAMBDA r :
         \* r.ret is res2
         IF r.ret < 0 THEN r
         ELSE ElementsEmptyLoop(p_blob, n_bytes, r.st, byteOrder, geometryTypeExpected, i + 1, numGeoms, IF r.ret = 0 THEN r.ret ELSE res))

\* ElementsEmpty with the count test of the envelope readers: a count below
\* one is an error
ElementsEmptyCountFails(p_blob, n_bytes, st, byteOrder, geometryTypeExpected) ==
  Bind(getInt(p_blob, st, byteOrder), LAMBDA g :
    IF g.v < 1 THEN Ret(-1, g.st)
    ELSE ElementsEmptyLoop(p_blob, n_bytes, g.st, byteOrder, geometryTypeExpected, 0, g.v, 1))

\* the common body of isEmptyWKBMultiPoint, isEmptyWKBMultiLineString,
\* isEmptyWKBMultiPolygon and isEmptyWKBGeometryCollection
ElementsEmpty(p_blob, n_bytes, st, byteOrder, geometryTypeExpected) ==
  Bind(getInt(p_blob, st, byteOrder), LAMBDA g :
    \* g.v is numGeoms
    IF g.v < 1 THEN Ret(1, g.st)
    ELSE ElementsEmptyLoop(p_blob, n_bytes, g.st, byteOrder, geometryTypeExpected, 0, g.v, 1))

isEmptyWKBMultiPoint(p_blob, n_bytes, st, byteOrder, dimension) ==
  ElementsEmpty(p_blob, n_bytes, st, byteOrder, wkbPoint)

isEmptyWKBMultiLineString(p_blob, n_bytes, st, byteOrder, dimension) ==
  ElementsEmpty(p_blob, n_bytes, st, byteOrder, wkbLineString)

isEmptyWKBMultiPolygon(p_blob, n_bytes, st, byteOrder, dimension) ==
  ElementsEmpty(p_blob, n_bytes, st, byteOrder, wkbPolygon)

isEmptyWKBGeometryCollection(p_blob, n_bytes, st, byteOrder, dimension) ==
  ElementsEmpty(p_blob, n_bytes, st, byteOrder, wkbGeometry)

\* the switch (geometryType) of isEmptyWKBGeometry
EmptyDispatch(p_blob, n_bytes, st, byteOrder, dimension, geometryType) ==
  CASE geometryType = wkbPoint ->
         isEmptyWKBPoint(p_blob, n_bytes, st, byteOrder, dimension)
    [] geometryType = wkbLineString ->
         isEmptyWKBLineString(p_blob, n_bytes, st, byteOrder, dimension)
    [] geometryType = wkbPolygon ->
         isEmptyWKBPolygon(p_blob, n_bytes, st, byteOrder, dimension)
    [] geometryType = wkbMultiPoint ->
         isEmptyWKBMultiPoint(p_blob, n_bytes, st, byteOrder, dimension)
    [] geometryType = wkbMultiLineString ->
         isEmptyWKBMultiLineString(p_blob, n_bytes, st, byteOrder, dimension)
    [] geometryType = wkbMultiPolygon ->
         isEmptyWKBMultiPolygon(p_blob, n_bytes, st, byteOrder, dimension)
    [] geometryType = wkbGeometryCollection ->
         isEmptyWKBGeometryCollection(p_blob, n_bytes, st, byteOrder, dimension)
    [] OTHER -> Ret(-1, st)

isEmptyWKBGeometry(p_blob, n_bytes, st, byteOrder, geometryTypeExpected) ==
  IF <<st.index, byteOrder, geometryTypeExpected>> \in st.open THEN Recurse(st)
  ELSE
  Leave(Bind(getByte(p_blob, Enter(st, <<st.index, byteOrder, geometryTypeExpected>>)), LAMBDA b :
    Bind(RecordOrder(b.v, byteOrder), LAMBDA order :
      Bind(getInt(p_blob, b.st, order), LAMBDA t :
        \* t.v is typeInt
        Bind(SkipSRID(t.st, t.v), LAMBDA s1 :
          IF geometryTypeExpected # wkbGeometry /\ geometryTypeExpected # TypeGeometry(t.v)
            THEN Ret(-1, s1)
          ELSE EmptyDispatch(p_blob, n_bytes, s1, order, TypeDimension(t.v), TypeGeometry(t.v)))))), st)

\* ---------------------------------------------------------- GPKG header
\* bytes the envelope of each kind occupies, -1 for an unknown kind
EnvelopeBytes(envelopeType) ==
  CASE envelopeType = 0 -> 0
    [] envelopeType = 1 -> 32
    [] envelopeType = 2 -> 48
    [] envelopeType = 3 -> 48
    [] envelopeType = 4 -> 64
    [] OTHER -> -1

\* the fields of the flags byte
FlagsEmpty(flags) == (flags \div GPKG_EMPTY_BIT) % 2
FlagsEnvelope(flags) == (flags % (GPKG_ENV_BITS + 2)) \div 2
FlagsByteOrder(flags) == flags % (GPKG_BYTEORDER_BIT + 1)

\* the common start of the three header readers: the magic and version
\* tests, each p_blob[(*index)++], then flags = p_blob[(*index)++] and the
\* SRID skip *index += 4.  ok is FALSE at the first test that fails.
HeaderStart(p_blob, st) ==
  Bind(getByte(p_blob, st), LAMBDA b1 :
    IF b1.v # GPKG_MAGIC1 THEN [ok |-> FALSE, flags |-> 0, st |-> b1.st]
    ELSE Bind(getByte(p_blob, b1.st), LAMBDA b2 :
      IF b2.v # GPKG_MAGIC2 THEN [ok |-> FALSE, flags |-> 0, st |-> b2.st]
      ELSE Bind(getByte(p_blob, b2.st), LAMBDA b3 :
        IF b3.v # GPKG_VERSION THEN [ok |-> FALSE, flags |-> 0, st |-> b3.st]
        ELSE Bind(getByte(p_blob, b3.st), LAMBDA f :
               [ok |-> TRUE, flags |-> f.v, st |-> Advance(f.st, 4)]))))

\* SkipEnvelope with the default case of the switch taken as "no envelope"
SkipEnvelopeLax(st, envelopeType, ok) ==
  IF EnvelopeBytes(envelopeType) = -1 \/ envelopeType = 0 THEN Ret(ok, st)
  ELSE Ret(ok, Advance(st, EnvelopeBytes(envelopeType)))

\* switch (envelopeType) { case 1: *index += 32; ... default: return 0; }
SkipEnvelope(st, envelopeType, ok) ==
  IF EnvelopeBytes(envelopeType) = -1 THEN Ret(0, st)
  ELSE IF envelopeType = 0 THEN Ret(ok, st)
  ELSE Ret(ok, Advance(st, EnvelopeBytes(envelopeType)))

skipGPKGHeader(p_blob, n_bytes, st) ==
  Bind(HeaderStart(p_blob, st), LAMBDA h :
    IF ~h.ok THEN Ret(0, h.st)
    ELSE SkipEnvelope(h.st, FlagsEnvelope(h.flags), 1))

\* offset readGPKGHeaderEnv adds to the cursor before its getDouble
HeaderEnvSeek(dimension, ordinate, maxmin) ==
  IF maxmin = MIN THEN ordinate * 8 ELSE dimension + ordinate * 8

\* offset readGPKGHeaderEnv adds to the cursor after reading a NaN
HeaderEnvRest(dimension, ordinate, maxmin) ==
  IF maxmin = MIN THEN (dimension + dimension - ordinate - 1) * 8
  ELSE (dimension - ordinate - 1) * 8

\* the dimension readGPKGHeaderEnv takes from the envelope kind 1..4
HeaderDimension(envelopeType) ==
  CASE envelopeType = 1 -> 2
    [] envelopeType = 2 -> 3
    [] envelopeType = 3 -> 3
    [] OTHER -> 4

\* the non-empty branch of readGPKGHeaderEnv, after the flags and SRID
HeaderEnvRead(p_blob, st, envelopeType, byteOrder, ordinate0, maxmin) ==
  IF envelopeType = 0 THEN Ret(-1, st)
  ELSE IF envelopeType > 4 THEN Ret(0, st)
  ELSE IF ordinate0 = Z /\ (envelopeType = 1 \/ envelopeType = 3) THEN Ret(0, st)
  ELSE IF ordinate0 = M /\ (envelopeType = 1 \/ envelopeType = 2) THEN Ret(0, st)
  ELSE Bind(IF ordinate0 = M /\ envelopeType = 3 THEN Z ELSE ordinate0, LAMBDA ordinate :
         Bind(getDouble(p_blob, Advance(st, HeaderEnvSeek(HeaderDimension(envelopeType), ordinate, maxmin)), byteOrder), LAMBDA g :
           IF isnan(g.v)
             THEN Ret(-1, Advance(WithRes(g.st, g.v), HeaderEnvRest(HeaderDimension(envelopeType), ordinate, maxmin)))
           ELSE Ret(1, WithRes(g.st, g.v))))

readGPKGHeaderEnv(p_blob, n_bytes, st, ordinate, maxmin) ==
  Bind(HeaderStart(p_blob, st), LAMBDA h :
    IF ~h.ok THEN Ret(0, h.st)
    ELSE IF FlagsEmpty(h.flags) # 0 THEN SkipEnvelope(h.st, FlagsEnvelope(h.flags), 1)
    ELSE HeaderEnvRead(p_blob, h.st, FlagsEnvelope(h.flags), FlagsByteOrder(h.flags), ordinate, maxmin))

\* what an entry point returns, with the history of its header step:
\* headerOk, the cursor the header step left, whether the walker was called
Entry(r, headerOk, hdrIndex, walked) ==
  [ret |-> r.ret, st |-> r.st, headerOk |-> headerOk, hdrIndex |-> hdrIndex, walked |-> walked]

\* readGPKGGeometryEnv as built with GPKG_ALLWAYS_USE_HEADER, whatever the
\* build
readGPKGGeometryEnvTrusting(p_blob, n_bytes, st, byteOrder, ordinate, maxmin, geometryTypeExpected) ==
  Bind(readGPKGHeaderEnv(p_blob, n_bytes, st, ordinate, maxmin), LAMBDA h :
    IF h.ret = 1 THEN Entry(h, 1, h.st.index, FALSE)
    ELSE Bind(readWKBGeometryEnv(p_blob, n_bytes, h.st, byteOrder, ordinate, maxmin, geometryTypeExpected), LAMBDA w :
           Entry(w, h.ret, h.st.index, TRUE)))

readGPKGGeometryEnv(p_blob, n_bytes, st, byteOrder, ordinate, maxmin, geometryTypeExpected) ==
  IF useHeader
    THEN Bind(readGPKGHeaderEnv(p_blob, n_bytes, st, ordinate, maxmin), LAMBDA h :
           IF h.ret = 1 THEN Entry(h, 1, h.st.index, FALSE)
           ELSE Bind(readWKBGeometryEnv(p_blob, n_bytes, h.st, byteOrder, ordinate, maxmin, geometryTypeExpected), LAMBDA w :
                  Entry(w, h.ret, h.st.index, TRUE)))
  ELSE Bind(skipGPKGHeader(p_blob, n_bytes, st), LAMBDA h :
         IF h.ret = 0 THEN Entry(h, 0, h.st.index, FALSE)
         ELSE Bind(readWKBGeometryEnv(p_blob, n_bytes, h.st, byteOrder, ordinate, maxmin, geometryTypeExpected), LAMBDA w :
                Entry(w, -1, h.st.index, TRUE)))

\* returns also *isEmpty
readEmptyGPKGHeader(p_blob, n_bytes, st) ==
  Bind(HeaderStart(p_blob, st), LAMBDA h :
    IF ~h.ok THEN [ret |-> 0, isEmpty |-> -1, st |-> h.st]
    ELSE Bind(SkipEnvelope(h.st, FlagsEnvelope(h.flags), 1), LAMBDA r :
           [ret |-> r.ret, isEmpty |-> IF r.ret = 0 THEN -1 ELSE FlagsEmpty(h.flags), st |-> r.st]))

isEmptyGPKGGeometry(p_blob, n_bytes, st, byteOrder, geometryTypeExpected) ==
  Bind(readEmptyGPKGHeader(p_blob, n_bytes, st), LAMBDA h :
    IF h.ret = 0 THEN Entry(Ret(-1, h.st), 0, h.st.index, FALSE)
    ELSE IF useHeader \/ h.isEmpty = 1 THEN Entry(Ret(h.isEmpty, h.st), 1, h.st.index, FALSE)
    ELSE Bind(isEmptyWKBGeometry(p_blob, n_bytes, h.st, byteOrder, geometryTypeExpected), LAMBDA w :
           Entry(w, 1, h.st.index, TRUE)))

\* ------------------------------------------------------- SQL functions
SqlNull == [type |-> "null", v |-> <<>>]
SqlDouble(d) == [type |-> "double", v |-> d]
SqlInt(i) == [type |-> "int", v |-> <<i>>]

NoRun ==
  [core |-> FALSE, ret |-> 0, res |-> heap.junk, index |-> 0, oob |-> {},
   trail |-> <<0>>, deep |-> 0, diverged |-> FALSE, headerOk |-> 0, hdrIndex |-> 0,
   walked |-> FALSE, result |-> SqlNull]

\* what one call did: the core's return and registers, and the SQL result
Outcome(r, result) ==
  [core |-> TRUE, ret |-> r.ret, res |-> r.st.res, index |-> r.st.index,
   oob |-> r.st.oob, trail |-> r.st.trail, deep |-> r.st.deep,
   diverged |-> r.st.diverged,
   headerOk |-> r.headerOk,
   hdrIndex |-> r.hdrIndex, walked |-> r.walked, result |-> result]

\* fnct_STEnv with the length test of fnct_STIsEmpty
fnct_STEnvShort(v, ordinate, maxmin) ==
  IF v.type = "blob" /\ Len(v.bytes) >= 13
    THEN Bind(readGPKGGeometryEnv(v.bytes, Len(v.bytes), Start(v.bytes, heap.junk), endian, ordinate, maxmin, wkbGeometry), LAMBDA r :
           Outcome(r, IF r.ret # 0 THEN SqlDouble(r.st.res) ELSE SqlNull))
  ELSE [NoRun EXCEPT !.result = SqlNull]

\* the body shared by fnct_STMinX .. fnct_STMaxM
fnct_STEnv(v, ordinate, maxmin) ==
  IF v.type = "blob" /\ Len(v.bytes) >= 29
    THEN Bind(readGPKGGeometryEnv(v.bytes, Len(v.bytes), Start(v.bytes, heap.junk), endian, ordinate, maxmin, wkbGeometry), LAMBDA r :
           Outcome(r, IF r.ret # 0 THEN SqlDouble(r.st.res) ELSE SqlNull))
  ELSE [NoRun EXCEPT !.result = SqlNull]

\* sqlite3 evaluates one function call at a time: a call starts when no
\* result is pending
Call(name, v, outcome) ==
  /\ fn = ""
  /\ fn' = name
  /\ arg' = v
  /\ run' = outcome
  /\ UNCHANGED <<host, useHeader, heap, db>>

fnct_STMinX(v) == Call("ST_MinX", v, fnct_STEnv(v, X, MIN))
fnct_STMinY(v) == Call("ST_MinY", v, fnct_STEnv(v, Y, MIN))
fnct_STMinZ(v) == Call("ST_MinZ", v, fnct_STEnv(v, Z, MIN))
fnct_STMinM(v) == Call("ST_MinM", v, fnct_STEnv(v, M, MIN))
fnct_STMaxX(v) == Call("ST_MaxX", v, fnct_STEnv(v, X, MAX))
fnct_STMaxY(v) == Call("ST_MaxY", v, fnct_STEnv(v, Y, MAX))
fnct_STMaxZ(v) == Call("ST_MaxZ", v, fnct_STEnv(v, Z, MAX))
fnct_STMaxM(v) == Call("ST_MaxM", v, fnct_STEnv(v, M, MAX))

\* the body of fnct_STIsEmpty
fnct_STIsEmptyRun(v) ==
  IF v.type = "blob" /\ Len(v.bytes) >= 13
    THEN Bind(isEmptyGPKGGeometry(v.bytes, Len(v.bytes), Start(v.bytes, heap.junk), endian, wkbGeometry), LAMBDA r :
           Outcome(r, SqlInt(r.ret)))
  ELSE [NoRun EXCEPT !.result = SqlInt(-1)]

fnct_STIsEmpty(v) == Call("ST_IsEmpty", v, fnct_STIsEmptyRun(v))

\* ------------------------------------------------------------- inputs
\* Blobs are written from geometry trees.  A tree is a record
\*   kind   the geometry kind code (1..7, or a code no reader knows)
\*   z, m   the ordinates its type code signals besides X and Y
\*   ewkb   TRUE: Z/M/SRID as the high bits, FALSE: Z/M as the thousands
\*   srid   TRUE iff the SRID bit is set and 4 bytes of SRID follow
\*   bo     the byte-order byte
\*   cnt    the declared count of points, rings or elements
\*   pts    the points of a Point or LineString
\*   rings  the rings of a Polygon, each [cnt, pts]
\*   elems  the elements of a Multi* or GeometryCollection

MaxPoints == 3      \* points per line string or ring
MaxElems == 3       \* elements per Multi* or GeometryCollection

NaN == <<127, 248, 0, 0, 0, 0, 0, 0>>

\* the double k.0 for k in 1..9
Dbl(k) ==
  <<64 - (IF k = 1 THEN 1 ELSE 0),
    <<240, 0, 8, 16, 20, 24, 28, 32, 34>>[k], 0, 0, 0, 0, 0, 0>>

RECURSIVE Flatten(_)
Flatten(ss) == IF ss = <<>> THEN <<>> ELSE Head(ss) \o Flatten(Tail(ss))

Reverse(b) == [k \in 1..Len(b) |-> b[Len(b) + 1 - k]]

\* the 4 bytes of the int v written in byte order bo
EncInt(v, bo) ==
  LET be == <<(v \div 16777216) % 256, (v \div 65536) % 256,
              (v \div 256) % 256, v % 256>>
  IN  IF bo = BIG_ENDIAN THEN be ELSE Reverse(be)

\* the 8 bytes of the double d written in byte order bo
EncDbl(d, bo) == IF bo = BIG_ENDIAN THEN d ELSE Reverse(d)

EncPoint(pt, bo) == Flatten([k \in 1..Len(pt) |-> EncDbl(pt[k], bo)])

EncPoints(pts, bo) == Flatten([k \in 1..Len(pts) |-> EncPoint(pts[k], bo)])

\* the type code of a tree, as its 4 bytes, most significant first
TypeBytes(g) ==
  LET code == IF g.ewkb THEN g.kind
              ELSE g.kind + 1000 * ((IF g.z THEN 1 ELSE 0)
                                    + (IF g.m THEN 2 ELSE 0))
      top == (IF g.ewkb /\ g.z THEN 128 ELSE 0)
             + (IF g.ewkb /\ g.m THEN 64 ELSE 0)
             + (IF g.srid THEN 32 ELSE 0)
  IN  <<top, 0, code \div 256, code % 256>>

RECURSIVE Enc(_, _)
\* the WKB record of tree g inside a record of byte order ambient
Enc(g, ambient) ==
  LET bo == IF g.bo \in {0, 1} THEN g.bo ELSE ambient
      head == <<g.bo>>
              \o (IF bo = BIG_ENDIAN THEN TypeBytes(g)
                  ELSE Reverse(TypeBytes(g)))
              \o (IF g.srid THEN EncInt(4326, bo) ELSE <<>>)
  IN  head \o
      (CASE g.kind = wkbPoint -> EncPoints(g.pts, bo)
         [] g.kind = wkbLineString -> EncInt(g.cnt, bo) \o EncPoints(g.pts, bo)
         [] g.kind = wkbPolygon ->
              EncInt(g.cnt, bo)
              \o Flatten([k \in 1..Len(g.rings) |->
                            EncInt(g.rings[k].cnt, bo)
                            \o EncPoints(g.rings[k].pts, bo)])
         [] g.kind \in 4..7 ->
              EncInt(g.cnt, bo)
              \o Flatten([k \in 1..Len(g.elems) |-> Enc(g.elems[k], bo)])
         [] OTHER -> EncPoints(g.pts, bo))

\* the GPKG header: magic, version, flags, srs_id, envelope
\* env is the sequence of envelope doubles, written in the order of bit 0
EncHeader(envelopeType, empty, hbo, env) ==
  <<GPKG_MAGIC1, GPKG_MAGIC2, GPKG_VERSION,
    hbo + 2 * envelopeType + (IF empty THEN GPKG_EMPTY_BIT ELSE 0)>>
  \o EncInt(4326, hbo)
  \o Flatten([k \in 1..Len(env) |-> EncDbl(env[k], hbo)])

\* ---- trees
Dim(z, m) == 2 + (IF z THEN 1 ELSE 0) + (IF m THEN 1 ELSE 0)

\* the point (k, k+1, ..) of dim ordinates
Pt(dim, k) == [j \in 1..dim |-> Dbl(k + j - 1)]
PtNaN(dim) == [j \in 1..dim |-> NaN]

Tree(kind, z, m, ewkb, srid, bo, cnt, pts, rings, elems) ==
  [kind |-> kind, z |-> z, m |-> m, ewkb |-> ewkb, srid |-> srid, bo |-> bo,
   cnt |-> cnt, pts |-> pts, rings |-> rings, elems |-> elems]

\* the shape of a record: ordinates, flag style, SRID, byte order
Shape(z, m, ewkb, srid, bo) ==
  [z |-> z, m |-> m, ewkb |-> ewkb, srid |-> srid, bo |-> bo]

TPoint(sh, pt) ==
  Tree(wkbPoint, sh.z, sh.m, sh.ewkb, sh.srid, sh.bo, 1, <<pt>>, <<>>, <<>>)

TLine(sh, pts) ==
  Tree(wkbLineString, sh.z, sh.m, sh.ewkb, sh.srid, sh.bo, Len(pts), pts,
       <<>>, <<>>)

Ring(pts) == [cnt |-> Len(pts), pts |-> pts]

TPolygon(sh, rings) ==
  Tree(wkbPolygon, sh.z, sh.m, sh.ewkb, sh.srid, sh.bo, Len(rings), <<>>,
       rings, <<>>)

TMulti(kind, sh, elems) ==
  Tree(kind, sh.z, sh.m, sh.ewkb, sh.srid, sh.bo, Len(elems), <<>>, <<>>,
       elems)

\* ---- reference values, computed on the tree
RECURSIVE AllPoints(_)
\* every point of a tree, in encoding order
AllPoints(g) ==
  CASE g.kind \in {wkbPoint, wkbLineString} -> g.pts
    [] g.kind = wkbPolygon ->
         Flatten([k \in 1..Len(g.rings) |-> g.rings[k].pts])
    [] g.kind \in 4..7 ->
         Flatten([k \in 1..Len(g.elems) |-> AllPoints(g.elems[k])])
    [] OTHER -> <<>>

\* position of an ordinate in the points of a tree, 0 if it has none
OrdPos(g, ordinate) ==
  CASE ordinate = X -> 1
    [] ordinate = Y -> 2
    [] ordinate = Z -> IF g.z THEN 3 ELSE 0
    [] OTHER -> IF ~g.m THEN 0 ELSE IF g.z THEN 4 ELSE 3

RECURSIVE Extreme(_, _, _, _)
\* the least (MIN) or greatest (MAX) j-th ordinate of pts[k..]
Extreme(pts, j, maxmin, k) ==
  IF k = Len(pts) THEN pts[k][j]
  ELSE LET rest == Extreme(pts, j, maxmin, k + 1)
       IN  IF maxmin = MIN
             THEN (IF DblLess(rest, pts[k][j]) THEN rest ELSE pts[k][j])
           ELSE (IF DblLess(pts[k][j], rest) THEN rest ELSE pts[k][j])

\* the envelope a writer stores for a tree: min and max of X, of Y, and of
\* Z and M as the envelope kind says
Envelope(g, envelopeType) ==
  LET ords == CASE envelopeType = 1 -> <<X, Y>>
                [] envelopeType = 2 -> <<X, Y, Z>>
                [] envelopeType = 3 -> <<X, Y, M>>
                [] envelopeType = 4 -> <<X, Y, Z, M>>
                [] OTHER -> <<>>
      pts == AllPoints(g)
  IN  Flatten([k \in 1..Len(ords) |->
                 <<Extreme(pts, OrdPos(g, ords[k]), MIN, 1),
                   Extreme(pts, OrdPos(g, ords[k]), MAX, 1)>>])

\* the envelope kinds that fit the ordinates of a tree
EnvelopeKinds(g) ==
  {1} \cup (IF g.z /\ ~g.m THEN {2} ELSE {})
      \cup (IF g.m /\ ~g.z THEN {3} ELSE {})
      \cup (IF g.z /\ g.m THEN {4} ELSE {})

\* ---- arguments of the SQL functions
NoTree == Tree(0, FALSE, FALSE, FALSE, FALSE, 0, 0, <<>>, <<>>, <<>>)

NotABlob ==
  [type |-> "null", bytes |-> <<>>, geom |-> NoTree, envelopeType |-> 0,
   empty |-> FALSE, hbo |-> 0, family |-> "null"]

\* a blob of the given bytes, labelled with the tree and header it was
\* written from
RawBlob(bytes, g, envelopeType, empty, hbo, family) ==
  [type |-> "blob", bytes |-> bytes, geom |-> g,
   envelopeType |-> envelopeType, empty |-> empty, hbo |-> hbo,
   family |-> family]

\* a blob: header, then the record of tree g; the envelope, if any, is the
\* one computed from g
Blob(g, envelopeType, empty, hbo, family) ==
  RawBlob(EncHeader(envelopeType, empty, hbo, Envelope(g, envelopeType)) \o Enc(g, hbo), g, envelopeType, empty, hbo, family)

\* a blob without envelope, byte-order bit set
Plain(g, family) == Blob(g, 0, FALSE, 1, family)

Shapes ==
  {Shape(zm[1], zm[2], FALSE, FALSE, 1) : zm \in BOOLEAN \X BOOLEAN}
  \cup {Shape(zm[1], zm[2], TRUE, FALSE, 0) : zm \in BOOLEAN \X BOOLEAN}
  \cup {Shape(TRUE, FALSE, TRUE, TRUE, 1), Shape(FALSE, TRUE, FALSE, FALSE, 0)}

XY == Shape(FALSE, FALSE, FALSE, FALSE, 1)
XYZ == Shape(TRUE, FALSE, FALSE, FALSE, 1)

\* the k-th point of a canonical line: first 2, then 1, then 3, 4, ..
LinePt(dim, k) == Pt(dim, IF k = 1 THEN 2 ELSE IF k = 2 THEN 1 ELSE k)

CanonLine(sh) ==
  TLine(sh, [k \in 1..MaxPoints |-> LinePt(Dim(sh.z, sh.m), k)])

CanonPolygon(sh) ==
  TPolygon(sh, <<Ring([k \in 1..MaxPoints |-> LinePt(Dim(sh.z, sh.m), k)]),
                 Ring(<<Pt(Dim(sh.z, sh.m), 2)>>)>>)

\* a well-formed tree of each kind
Canon(kind, sh) ==
  LET d == Dim(sh.z, sh.m)
  IN  CASE kind = wkbPoint -> TPoint(sh, Pt(d, 1))
        [] kind = wkbLineString -> CanonLine(sh)
        [] kind = wkbPolygon -> CanonPolygon(sh)
        [] kind = wkbMultiPoint ->
             TMulti(kind, sh, [k \in 1..MaxElems |-> TPoint(sh, LinePt(d, k))])
        [] kind = wkbMultiLineString ->
             TMulti(kind, sh, <<TLine(sh, <<Pt(d, 2)>>), CanonLine(sh)>>)
        [] kind = wkbMultiPolygon ->
             TMulti(kind, sh, <<CanonPolygon(sh), CanonPolygon(sh)>>)
        [] OTHER ->
             TMulti(wkbGeometryCollection, sh,
                    <<TPoint(sh, Pt(d, 2)),
                      TMulti(wkbMultiPoint, sh, <<TPoint(sh, Pt(d, 1))>>),
                      CanonLine(sh)>>)

\* well-formed blobs: every kind and shape, without envelope and with each
\* envelope that fits
WellFormed ==
  UNION {{Plain(Canon(kind, sh), "wellformed")}
         \cup {Blob(Canon(kind, sh), e, FALSE, hbo, "wellformed") :
                 e \in EnvelopeKinds(Canon(kind, sh)), hbo \in {0, 1}} :
         kind \in 1..7, sh \in Shapes}

\* a header that announces an envelope, followed at once by a 2-D point:
\* 29 bytes
ShortEnvelope ==
  {RawBlob(EncHeader(e, FALSE, 1, <<>>) \o Enc(TPoint(XY, Pt(2, 1)), 1), TPoint(XY, Pt(2, 1)), e, FALSE, 1, "shortenvelope") : e \in 1..4}

\* the first n bytes of a blob
Cut(b, n, family) == [b EXCEPT !.bytes = SubSeq(@, 1, n), !.family = family]

\* well-formed blobs cut short, down to the 13 bytes ST_IsEmpty accepts
Truncated ==
  UNION {{Cut(Plain(Canon(kind, XY), ""), n, "truncated") :
            n \in 13..(Len(Plain(Canon(kind, XY), "").bytes) - 1)} :
         kind \in {wkbLineString, wkbMultiPoint, wkbMultiLineString}}

\* polygons whose exterior ring has no points: alone, and followed by an
\* interior ring of 0..MaxPoints points
EmptyExterior ==
  {Plain(TPolygon(sh, <<Ring(<<>>)>>), "emptyexterior") : sh \in {XY, XYZ}}
  \cup {Plain(TPolygon(sh, <<Ring(<<>>), Ring([k \in 1..n |-> Pt(Dim(sh.z, sh.m), k)])>>), "emptyexterior") : sh \in {XY, XYZ}, n \in 0..MaxPoints}

\* every sequence of 0..n elements of pool
RECURSIVE SeqsUpTo(_, _)
SeqsUpTo(pool, n) ==
  IF n = 0 THEN {<<>>}
  ELSE LET shorter == SeqsUpTo(pool, n - 1)
       IN  shorter \cup {Append(q, e) : q \in shorter, e \in pool}

\* MultiPoints of 0..MaxElems 2-D points, each (NaN,NaN) or (1.0,2.0)
NaNPoints ==
  {Plain(TMulti(wkbMultiPoint, sh, elems), "nanpoints") :
     sh \in {XY, Shape(FALSE, FALSE, FALSE, FALSE, 0)},
     elems \in SeqsUpTo({TPoint(XY, PtNaN(2)), TPoint(XY, Pt(2, 1))}, MaxElems)}

\* a record whose type code names no geometry kind
UnknownKind == Tree(9, FALSE, FALSE, FALSE, FALSE, 1, 0, <<>>, <<>>, <<>>)

\* the kind a container requires of its elements, wkbGeometry for any
ElementKind(kind) ==
  CASE kind = wkbMultiPoint -> wkbPoint
    [] kind = wkbMultiLineString -> wkbLineString
    [] kind = wkbMultiPolygon -> wkbPolygon
    [] OTHER -> wkbGeometry

\* elements to fill a container of each kind with: of the required kind with
\* and without coordinates, and one the container cannot take
ElemPool(kind) ==
  CASE kind = wkbMultiPoint ->
         {TPoint(XY, PtNaN(2)), TPoint(XY, Pt(2, 1)), TLine(XY, <<Pt(2, 1)>>)}
    [] kind = wkbMultiLineString ->
         {TLine(XY, <<>>), TLine(XY, <<Pt(2, 1)>>), TPoint(XY, Pt(2, 1))}
    [] kind = wkbMultiPolygon ->
         {TPolygon(XY, <<Ring(<<>>)>>), TPolygon(XY, <<Ring(<<Pt(2, 1)>>)>>),
          TPolygon(XY, <<>>)}
    [] OTHER ->
         {TMulti(wkbMultiPoint, XY, <<TPoint(XY, PtNaN(2))>>),
          TLine(XY, <<Pt(2, 1)>>), UnknownKind}

\* containers of every kind holding 0..MaxElems elements of their pool
Collections ==
  UNION {{Plain(TMulti(kind, XY, elems), "collections") :
            elems \in SeqsUpTo(ElemPool(kind), MaxElems)} :
         kind \in {wkbMultiPoint, wkbMultiLineString, wkbMultiPolygon,
                   wkbGeometryCollection}}

\* n elements, all good but the p-th, which is bad
OneBad(good, bad, n, p) == [k \in 1..n |-> IF k = p THEN bad ELSE good]

\* tree g as it is (depth 1) or as the last element of an outer
\* GeometryCollection (depth 2)
Nest(g, sh, depth) ==
  IF depth = 1 THEN g
  ELSE TMulti(wkbGeometryCollection, sh, <<TPoint(sh, Pt(Dim(sh.z, sh.m), 1)), g>>)

\* <<n, p>>: n elements, the p-th the bad one
Positions == {np \in (1..MaxElems) \X (1..MaxElems) : np[2] <= np[1]}

\* containers with one element that does not decode, at every position and
\* at depth 1 and 2: an unknown kind code, a kind the container does not
\* take, a Polygon of zero rings
BadElement ==
  UNION {{Plain(Nest(TMulti(wkbGeometryCollection, XY, OneBad(TPoint(XY, Pt(2, 1)), UnknownKind, np[1], np[2])), XY, depth), "defect:unknown"),
          Plain(Nest(TMulti(wkbMultiPoint, XY, OneBad(TPoint(XY, Pt(2, 1)), TLine(XY, <<Pt(2, 1)>>), np[1], np[2])), XY, depth), "defect:kind"),
          Plain(Nest(TMulti(wkbGeometryCollection, XY, OneBad(TPoint(XY, Pt(2, 1)), TPolygon(XY, <<>>), np[1], np[2])), XY, depth), "defect:count")} :
         np \in Positions, depth \in {1, 2}}

\* containers of XYZ elements with one XY point among them
FlatElement ==
  {Plain(Nest(TMulti(wkbGeometryCollection, XYZ, OneBad(TPoint(XYZ, Pt(3, 1)), TPoint(XY, Pt(2, 1)), np[1], np[2])), XYZ, depth), "defect:ordinate") :
     np \in Positions, depth \in {1, 2}}

\* containers whose last element, a LineString of one point, is cut short:
\* inside the point, inside the count, before the count
CutElement ==
  {Cut(b[1], Len(b[1].bytes) - b[2], "defect:truncated") :
     b \in {Plain(Nest(TMulti(wkbGeometryCollection, XY, OneBad(TPoint(XY, Pt(2, 1)), TLine(XY, <<Pt(2, 1)>>), n, n)), XY, depth), "") :
               n \in 1..MaxElems, depth \in {1, 2}} \X {8, 18, 20}}

AllOnes == <<255, 255, 255, 255, 255, 255, 255, 255>>

\* a point under a header whose envelope of each kind holds NaN only
NaNEnvelope ==
  {RawBlob(EncHeader(e, FALSE, hbo, [k \in 1..(EnvelopeBytes(e) \div 8) |-> nan]) \o Enc(TPoint(Shape(e \in {2, 4}, e \in {3, 4}, FALSE, FALSE, hbo), Pt(EnvelopeBytes(e) \div 16, 1)), hbo),
           TPoint(Shape(e \in {2, 4}, e \in {3, 4}, FALSE, FALSE, hbo), Pt(EnvelopeBytes(e) \div 16, 1)), e, FALSE, hbo, "nanenvelope") :
     e \in 1..4, hbo \in {0, 1}, nan \in {NaN, AllOnes}}

\* blobs whose header says "empty": over a point without coordinates, over
\* geometries with coordinates, with and without envelope, and over a body
\* that does not decode
EmptyFlag ==
  {Blob(g, e, TRUE, 1, "emptyflag") :
     g \in {TPoint(XY, PtNaN(2)), TPoint(XY, Pt(2, 1)), CanonLine(XYZ)},
     e \in {0, 1}}
  \cup {Blob(g, 0, TRUE, 1, "emptyflag") :
          g \in {TPolygon(XY, <<>>), TMulti(wkbMultiPoint, XY, <<TPoint(XY, Pt(2, 1)), UnknownKind>>)}}

\* blob b with byte i (from 1) replaced by v
Poke(b, i, v, envelopeType, family) ==
  [b EXCEPT !.bytes[i] = v, !.envelopeType = envelopeType, !.family = family]

\* well-formed blobs with one header byte spoilt: the first or the second
\* magic byte, the version, the envelope kind of the flags byte
BadHeader ==
  UNION {{Poke(b, 1, 71 + 1, 0, "badheader"), Poke(b, 2, 0, 0, "badheader"),
          Poke(b, 3, 1, 0, "badheader"), Poke(b, 4, 1 + 2 * 5, 5, "badheader"),
          Poke(b, 4, 1 + 2 * 6, 6, "badheader"), Poke(b, 4, 1 + 2 * 7, 7, "badheader")} :
         b \in {Plain(Canon(wkbPoint, XY), ""), Plain(CanonLine(XYZ), "")}}

\* a point blob cut to no bytes, to one byte less than ST_IsEmpty accepts
\* and to one byte less than the envelope functions accept
Short ==
  {Cut(Plain(Canon(wkbPoint, XY), ""), n, "short") : n \in {0, 12, 28}}

\* line strings of 1..MaxPoints points of every shape
Lines ==
  {Plain(TLine(sh, [k \in 1..n |-> LinePt(Dim(sh.z, sh.m), k)]), "wellformed") :
     sh \in Shapes, n \in 1..MaxPoints}

\* a LineString record of dimension 3 that declares 178956969 points and
\* holds none: 178956969 * 3 * 8 is -40 in 32 bits
BackLine ==
  Tree(wkbLineString, TRUE, FALSE, FALSE, FALSE, 1, 178956969, <<>>, <<>>, <<>>)

\* a GeometryCollection with SRID that declares 4 elements and holds 3: two
\* LineStrings of no points and BackLine, 40 bytes in all
Backward ==
  {Plain(Tree(wkbGeometryCollection, FALSE, FALSE, FALSE, TRUE, 1, 4, <<>>, <<>>,
              <<TLine(XY, <<>>), TLine(XY, <<>>), BackLine>>), "backward")}

\* LineStrings, and Polygons of two rings, that declare c points of
\* dimension d and hold none, c * d * 8 being 0, -16 and -40 in 32 bits
Overflow ==
  {Plain(Tree(wkbLineString, cs[2].z, cs[2].m, FALSE, FALSE, 1, cs[1], <<>>, <<>>, <<>>), "overflow") :
     cs \in {<<268435456, XY>>, <<268435455, XY>>, <<178956969, XYZ>>}}
  \cup {Plain(Tree(wkbPolygon, cs[2].z, cs[2].m, FALSE, FALSE, 1, 2, <<>>,
                    <<[cnt |-> cs[1], pts |-> <<>>], [cnt |-> cs[1], pts |-> <<>>]>>, <<>>), "overflow") :
     cs \in {<<268435456, XY>>, <<178956969, XYZ>>}}

XYM == Shape(FALSE, TRUE, FALSE, FALSE, 1)
XYZM == Shape(TRUE, TRUE, FALSE, FALSE, 1)

\* a polygon of two rings of two points; the second ring lies outside the
\* range of the first in every ordinate
TwoRings(sh) ==
  TPolygon(sh, <<Ring(<<Pt(Dim(sh.z, sh.m), 2), Pt(Dim(sh.z, sh.m), 3)>>),
                 Ring(<<Pt(Dim(sh.z, sh.m), 1), Pt(Dim(sh.z, sh.m), 5)>>)>>)

\* the offset at which the second ring of TwoRings(sh) starts in its blob
SecondRing(sh) == 21 + 16 * Dim(sh.z, sh.m)

\* polygons of two rings: whole; with a second ring of no points; cut in
\* and after the count of the second ring, before its last ordinate and
\* before its last byte; with a second ring that declares 268435456 points
\* and holds none; and, under an envelope of 32 bytes, of no rings
Rings ==
  {Plain(TwoRings(sh), "rings") : sh \in {XY, XYZ, XYM, XYZM}}
  \cup {Plain(TPolygon(sh, <<TwoRings(sh).rings[1], Ring(<<>>)>>), "rings:bad") : sh \in {XY, XYZ, XYM, XYZM}}
  \cup UNION {{Cut(Plain(TwoRings(sh), ""), n, "rings:bad") :
                 n \in {SecondRing(sh) + 2, SecondRing(sh) + 4,
                        Len(Plain(TwoRings(sh), "").bytes) - 8,
                        Len(Plain(TwoRings(sh), "").bytes) - 1}} :
               sh \in {XY, XYZM}}
  \cup {Plain(TPolygon(XY, <<TwoRings(XY).rings[1], [cnt |-> 268435456, pts |-> <<>>]>>), "rings:wrapped")}
  \cup {RawBlob(EncHeader(1, FALSE, 1, <<Dbl(1), Dbl(2), Dbl(1), Dbl(2)>>) \o Enc(TPolygon(XY, <<>>), 1),
                 TPolygon(XY, <<>>), 1, FALSE, 1, "rings:bad")}

\* a 2-D shape whose byte-order byte is bo
Marked(bo) == Shape(FALSE, FALSE, FALSE, FALSE, bo)

\* 2-D points and MultiPoints of two points whose byte-order bytes are 0, 1
\* or 2, each byte 2 standing where the writer keeps the order it is in
MarkerTrees ==
  {TPoint(Marked(2), Pt(2, 1))}
  \cup {TMulti(wkbMultiPoint, Marked(b[1]), <<TPoint(Marked(b[2]), Pt(2, 2)), TPoint(Marked(b[3]), Pt(2, 1))>>) :
          b \in {0, 1, 2} \X {0, 1, 2} \X {0, 1, 2}}

\* the trees of MarkerTrees written from byte order a on, under a header
\* whose byte-order bit says the other order
Markers ==
  {RawBlob(EncHeader(0, FALSE, 1 - a, <<>>) \o Enc(g, a), g, 0, FALSE, 1 - a,
           IF a = 0 THEN "marker:0" ELSE "marker:1") :
     g \in MarkerTrees, a \in {0, 1}}

\* what a type code says, the code given by its most significant byte top
\* and its 16 low bits low: Z, M, SRID and kind
CodeZ(top, low) == top >= 128 \/ low \div 1000 \in {1, 3}
CodeM(top, low) == (top % 128) >= 64 \/ low \div 1000 \in {2, 3}
CodeSRID(top) == (top % 64) >= 32
CodeKind(low) == low % 1000

\* the little-endian blob of a record with type code (top, mid, low): for
\* kind 2 a count of 1, then the point (1, 2, ..) of the dimension the code
\* says
TypeCode(top, mid, low) ==
  RawBlob(EncHeader(0, FALSE, 1, <<>>)
          \o <<LITTLE_ENDIAN, low % 256, low \div 256, mid, top>>
          \o (IF CodeSRID(top) THEN EncInt(4326, LITTLE_ENDIAN) ELSE <<>>)
          \o (IF CodeKind(low) = wkbLineString THEN EncInt(1, LITTLE_ENDIAN) ELSE <<>>)
          \o EncPoint(Pt(Dim(CodeZ(top, low), CodeM(top, low)), 1), LITTLE_ENDIAN),
          Tree(CodeKind(low), CodeZ(top, low), CodeM(top, low), top # 0, CodeSRID(top),
               LITTLE_ENDIAN, 1, <<Pt(Dim(CodeZ(top, low), CodeM(top, low)), 1)>>, <<>>, <<>>),
          0, FALSE, 1, "typecode")

\* type codes: every combination of the flag bits 31, 30 and 29 with the ISO
\* thousands 0..4, kinds inside and outside 1..7, and codes with other bits
\* set
TypeCodes ==
  {TypeCode(top, 0, low) : top \in {0, 128, 64, 32, 224},
                           low \in {1, 1001, 2001, 3001, 4001, 2002, 8, 1000}}
  \cup {TypeCode(16, 0, 1), TypeCode(0, 1, 1), TypeCode(0, 0, 65001), TypeCode(0, 0, 0)}

Args ==
  {NotABlob} \cup TypeCodes \cup Markers \cup Backward \cup Overflow \cup Rings \cup WellFormed \cup ShortEnvelope \cup Truncated
  \cup EmptyExterior \cup NaNPoints \cup Collections \cup BadElement
  \cup FlatElement \cup CutElement \cup NaNEnvelope \cup EmptyFlag
  \cup BadHeader \cup Short \cup Lines

Heaps ==
  {[after |-> <<>>, fill |-> 0, junk |-> Dbl(9)],
   [after |-> <<>>, fill |-> 255, junk |-> NaN]}

\* ------------------------------------------------------ spatial index
\* The database holds one feature table (its rows: id -> geometry), and
\* what GPKG_AddSpatialIndex makes for it: the rtree table (its entries:
\* the ids it holds; the minx, maxx, miny, maxy stored with an id are not
\* followed), seven triggers, and the gpkg_rtree_index row of
\* gpkg_extensions.  last is the statement run last, error whether
\* it reported an error, stmts how many statements the last
\* GPKG_AddSpatialIndex started.
SQLITE_OK == 0
SQLITE_ERROR == 1

MaxId == 2
Ids == 1..MaxId

Triggers ==
  {"insert", "update2", "update4", "update5", "update6", "update7", "delete"}

NoIndex ==
  [objects |-> {}, ext |-> FALSE, rows |-> <<>>, entries |-> {},
   last |-> "", error |-> FALSE, stmts |-> 0]

\* f with k mapped to v
Put(f, k, v) == [x \in DOMAIN f \cup {k} |-> IF x = k THEN v ELSE f[x]]
\* f without the keys of S
Without(f, S) == [x \in DOMAIN f \ S |-> f[x]]

\* a MultiLineString of two lines that ends one byte into the type code of
\* its second line
CutLines ==
  Cut(Plain(TMulti(wkbMultiLineString, XY, <<TLine(XY, <<Pt(2, 2)>>), TLine(XY, <<Pt(2, 1)>>)>>), "row"), 44, "row")

\* the geometries a row can hold: NULL, an empty point, a point, and the
\* MultiLineString cut short
Geoms ==
  {NotABlob,
   Plain(TPoint(XY, PtNaN(2)), "row"),
   Plain(TPoint(XY, Pt(2, 1)), "row"),
   CutLines}

\* g NOT NULL AND NOT ST_IsEmpty(g)
NotEmpty(g) == g.type # "null" /\ fnct_STIsEmptyRun(g).result.v = <<0>>
\* g IS NULL OR ST_IsEmpty(g)
NullOrEmpty(g) == g.type = "null" \/ fnct_STIsEmptyRun(g).result.v # <<0>>

\* ---- the statements of the two functions
CreateTable == [op |-> "CREATE VIRTUAL TABLE", name |-> "rtree"]
CreateTrigger(t) == [op |-> "CREATE TRIGGER", name |-> t]
DropTrigger(t) == [op |-> "DROP TRIGGER", name |-> t]
DropTable == [op |-> "DROP TABLE", name |-> "rtree"]
InsertExtension == [op |-> "INSERT INTO gpkg_extensions", name |-> ""]
DeleteExtension == [op |-> "DELETE FROM gpkg_extensions", name |-> ""]
Populate == [op |-> "INSERT OR REPLACE INTO rtree SELECT", name |-> ""]

Done(d) == [db |-> d, res |-> SQLITE_OK]
Failed(d) == [db |-> d, res |-> SQLITE_ERROR]

\* sqlite3 runs one statement: CREATE fails on a name that exists, DROP
\* on one that does not, the INSERT on a gpkg_extensions row that exists
\* (the table is UNIQUE on table, column and extension name)
Statement(d, s) ==
  CASE s.op = "CREATE VIRTUAL TABLE" ->
         IF "rtree" \in d.objects THEN Failed(d)
         ELSE Done([d EXCEPT !.objects = @ \cup {"rtree"}, !.entries = {}])
    [] s.op = "CREATE TRIGGER" ->
         IF s.name \in d.objects THEN Failed(d)
         ELSE Done([d EXCEPT !.objects = @ \cup {s.name}])
    [] s.op = "DROP TRIGGER" ->
         IF s.name \notin d.objects THEN Failed(d)
         ELSE Done([d EXCEPT !.objects = @ \ {s.name}])
    [] s.op = "DROP TABLE" ->
         IF "rtree" \notin d.objects THEN Failed(d)
         ELSE Done([d EXCEPT !.objects = @ \ {"rtree"}, !.entries = {}])
    [] s.op = "INSERT INTO gpkg_extensions" ->
         IF d.ext THEN Failed(d) ELSE Done([d EXCEPT !.ext = TRUE])
    [] s.op = "DELETE FROM gpkg_extensions" ->
         Done([d EXCEPT !.ext = FALSE])
    [] OTHER ->
         IF "rtree" \notin d.objects THEN Failed(d)
         ELSE Done([d EXCEPT !.entries = @ \cup DOMAIN d.rows])

\* sqlite3_exec: the statements of sql in turn, up to the first that fails;
\* what the earlier ones did stays done
RECURSIVE sqlite3_exec(_, _)
sqlite3_exec(d, sql) ==
  IF sql = <<>> THEN Done(d)
  ELSE Bind(Statement(d, Head(sql)), LAMBDA r :
         IF r.res # SQLITE_OK THEN r ELSE sqlite3_exec(r.db, Tail(sql)))

\* sqlite3_exec_free that does not run errsql
sqlite3_exec_keep(d, sql, errsql, fault) ==
  Bind(IF fault THEN Failed(d) ELSE sqlite3_exec(d, sql), LAMBDA r :
    IF r.res # SQLITE_OK THEN [db |-> [r.db EXCEPT !.error = TRUE], res |-> r.res]
    ELSE r)

\* fault: sql fails for a reason the database above does not show (the
\* table or a column it names is missing, gpkg_extensions is missing, the
\* disk is full).  errsql = <<>> is the NULL errsql.
sqlite3_exec_free(d, sql, errsql, fault) ==
  Bind(IF fault THEN Failed(d) ELSE sqlite3_exec(d, sql), LAMBDA r :
    IF r.res # SQLITE_OK
      THEN [db |-> [sqlite3_exec(r.db, errsql).db EXCEPT !.error = TRUE],
            res |-> r.res]
    ELSE r)

\* the statements of GPKG_AddSpatialIndex, each with its errsql
AddStatements ==
  <<[sql |-> <<CreateTable>>, errsql |-> <<>>],
    [sql |-> <<CreateTrigger("insert")>>, errsql |-> <<DropTable>>],
    [sql |-> <<CreateTrigger("update2")>>,
     errsql |-> <<DropTrigger("insert"), DropTable>>],
    [sql |-> <<CreateTrigger("update4")>>,
     errsql |-> <<DropTrigger("update2"), DropTrigger("insert"), DropTable>>],
    [sql |-> <<CreateTrigger("update5")>>,
     errsql |-> <<DropTrigger("update4"), DropTrigger("update2"),
                  DropTrigger("insert"), DropTable>>],
    [sql |-> <<CreateTrigger("update6")>>,
     errsql |-> <<DropTrigger("update5"), DropTrigger("update4"),
                  DropTrigger("update2"), DropTrigger("insert"), DropTable>>],
    [sql |-> <<CreateTrigger("update7")>>,
     errsql |-> <<DropTrigger("update6"), DropTrigger("update5"),
                  DropTrigger("update4"), DropTrigger("update2"),
                  DropTrigger("insert"), DropTable>>],
    [sql |-> <<CreateTrigger("delete")>>,
     errsql |-> <<DropTrigger("update7"), DropTrigger("update6"),
                  DropTrigger("update5"), DropTrigger("update4"),
                  DropTrigger("update2"), DropTrigger("insert"), DropTable>>],
    [sql |-> <<InsertExtension>>,
     errsql |-> <<DropTrigger("delete"), DropTrigger("update7"),
                  DropTrigger("update6"), DropTrigger("update5"),
                  DropTrigger("update4"), DropTrigger("update2"),
                  DropTrigger("insert"), DropTable>>],
    [sql |-> <<Populate>>,
     errsql |-> <<DeleteExtension, DropTrigger("delete"),
                  DropTrigger("update7"), DropTrigger("update6"),
                  DropTrigger("update5"), DropTrigger("update4"),
                  DropTrigger("update2"), DropTrigger("insert"), DropTable>>]>>

\* the body of fnct_GPKGAddSpatialIndex from its i-th statement on: the
\* function returns at the first statement that fails
RECURSIVE AddFrom(_, _, _)
AddFrom(d, i, fault) ==
  IF i > Len(AddStatements) THEN d
  ELSE Bind(sqlite3_exec_free([d EXCEPT !.stmts = i], AddStatements[i].sql, AddStatements[i].errsql, fault = i), LAMBDA r :
         IF r.res # SQLITE_OK THEN r.db ELSE AddFrom(r.db, i + 1, fault))

\* a statement starts: no error yet
Begin(d, name) == [d EXCEPT !.last = name, !.error = FALSE, !.stmts = 0]

fnct_GPKGAddSpatialIndex(fault) ==
  /\ db' = AddFrom(Begin(db, "GPKG_AddSpatialIndex"), 1, fault)
  /\ UNCHANGED <<host, useHeader, heap, fn, arg, run>>

\* GPKG_DropSpatialIndex that leaves the gpkg_extensions row
DropObjects(d) ==
  sqlite3_exec_free(d, <<DropTrigger("delete"), DropTrigger("update7"), DropTrigger("update6"), DropTrigger("update5"), DropTrigger("update4"), DropTrigger("update2"), DropTrigger("insert"), DropTable>>, <<>>, FALSE).db

\* the body of fnct_GPKGDropSpatialIndex
DropIndex(d) ==
  Bind(sqlite3_exec_free(d, <<DropTrigger("delete"), DropTrigger("update7"), DropTrigger("update6"), DropTrigger("update5"), DropTrigger("update4"), DropTrigger("update2"), DropTrigger("insert"), DropTable>>, <<>>, FALSE), LAMBDA r :
    IF r.res # SQLITE_OK THEN r.db
    ELSE sqlite3_exec_free(r.db, <<DeleteExtension>>, <<>>, FALSE).db)

fnct_GPKGDropSpatialIndex ==
  /\ db' = DropIndex(Begin(db, "GPKG_DropSpatialIndex"))
  /\ UNCHANGED <<host, useHeader, heap, fn, arg, run>>

\* ------------------------------------------------------- specification
Init ==
  /\ host \in {LITTLE_ENDIAN, BIG_ENDIAN}
  /\ useHeader \in BOOLEAN
  /\ heap \in Heaps
  /\ fn = ""
  /\ arg = NotABlob
  /\ run = NoRun
  /\ db = NoIndex

\* the call returns and sqlite3 takes its result; the next call can start
TakeResult ==
  /\ fn # ""
  /\ ~run.diverged
  /\ fn' = ""
  /\ arg' = NotABlob
  /\ run' = NoRun
  /\ UNCHANGED <<host, useHeader, heap, db>>

Next ==
  \/ TakeResult
  \/ \E v \in Args :
    \/ fnct_STMinX(v)
    \/ fnct_STMinY(v)
    \/ fnct_STMinZ(v)
    \/ fnct_STMinM(v)
    \/ fnct_STMaxX(v)
    \/ fnct_STMaxY(v)
    \/ fnct_STMaxZ(v)
    \/ fnct_STMaxM(v)
    \/ fnct_STIsEmpty(v)

Spec == Init /\ [][Next]_vars

\* ---- the same call made twice
\* between two calls other code rewrites the memory behind the blob and the
\* stack
Scribble ==
  /\ fn # ""
  /\ heap' \in Heaps \ {heap}
  /\ UNCHANGED <<host, useHeader, fn, arg, run, db>>

\* the database file is moved to a host of the other byte order
Rehost ==
  /\ fn # ""
  /\ host' = 1 - host
  /\ UNCHANGED <<useHeader, heap, fn, arg, run, db>>

\* what function f computes for argument v
RunOf(f, v) ==
  IF f = "ST_IsEmpty" THEN fnct_STIsEmptyRun(v)
  ELSE fnct_STEnv(v, IF f \in {"ST_MinX", "ST_MaxX"} THEN X
                     ELSE IF f \in {"ST_MinY", "ST_MaxY"} THEN Y
                     ELSE IF f \in {"ST_MinZ", "ST_MaxZ"} THEN Z ELSE M,
                  IF f \in {"ST_MinX", "ST_MinY", "ST_MinZ", "ST_MinM"} THEN MIN ELSE MAX)

\* the function called last is called again with the same argument
Again ==
  /\ fn # ""
  /\ run' = RunOf(fn, arg)
  /\ UNCHANGED <<host, useHeader, heap, fn, arg, db>>

ArgsTwice ==
  {NotABlob, Blob(TPoint(XY, PtNaN(2)), 0, TRUE, 1, "emptyflag")}
  \cup {Plain(Canon(kind, sh), "wellformed") :
          kind \in {wkbPoint, wkbLineString, wkbMultiPoint}, sh \in {XY, XYZ}}
  \cup ShortEnvelope

NextTwice ==
  \/ TakeResult
  \/ Scribble
  \/ Rehost
  \/ Again
  \/ \E v \in ArgsTwice :
    \/ fnct_STMinX(v)
    \/ fnct_STMinY(v)
    \/ fnct_STMinZ(v)
    \/ fnct_STMinM(v)
    \/ fnct_STMaxX(v)
    \/ fnct_STMaxY(v)
    \/ fnct_STMaxZ(v)
    \/ fnct_STMaxM(v)
    \/ fnct_STIsEmpty(v)

SpecTwice == Init /\ [][NextTwice]_vars

\* ---- the triggers
\* A trigger acts on a row change when it exists and its WHEN holds.  A
\* row change that a trigger watches cannot run at all when the rtree
\* table the trigger writes to is gone.
Then(r, F(_)) == IF r.res # SQLITE_OK THEN r ELSE F(r.db)

Watch(d, t, when, after) ==
  IF t \notin d.objects THEN Done(d)
  ELSE IF "rtree" \notin d.objects THEN Failed(d)
  ELSE IF when THEN after ELSE Done(d)

\* AFTER INSERT: INSERT OR REPLACE INTO rtree
rtree_insert(d, newId, newG) ==
  Watch(d, "insert", NotEmpty(newG),
        Done([d EXCEPT !.entries = @ \cup {newId}]))

\* AFTER UPDATE OF geometry: DELETE FROM rtree WHERE id = OLD.id
rtree_update2(d, oldId, oldG, newId, newG) ==
  Watch(d, "update2", oldId = newId /\ NullOrEmpty(newG),
        Done([d EXCEPT !.entries = @ \ {oldId}]))

\* AFTER UPDATE: DELETE FROM rtree WHERE id IN (OLD.id, NEW.id)
rtree_update4(d, oldId, oldG, newId, newG) ==
  Watch(d, "update4", oldId # newId /\ NullOrEmpty(newG),
        Done([d EXCEPT !.entries = @ \ {oldId, newId}]))

\* AFTER UPDATE: DELETE FROM rtree WHERE id = OLD.id, then INSERT OR
\* REPLACE INTO rtree
rtree_update5(d, oldId, oldG, newId, newG) ==
  Watch(d, "update5", oldId # newId /\ NotEmpty(newG),
        Done([d EXCEPT !.entries = (@ \ {oldId}) \cup {newId}]))

\* AFTER UPDATE OF geometry: UPDATE rtree SET .. WHERE id = NEW.id, which
\* changes the coordinates of an entry and no id
rtree_update6(d, oldId, oldG, newId, newG) ==
  Watch(d, "update6", oldId = newId /\ NotEmpty(newG) /\ NotEmpty(oldG),
        Done(d))

\* AFTER UPDATE OF geometry: INSERT INTO rtree, which fails on an id the
\* rtree holds already
rtree_update7(d, oldId, oldG, newId, newG) ==
  Watch(d, "update7", oldId = newId /\ NotEmpty(newG) /\ NullOrEmpty(oldG),
        IF newId \in d.entries THEN Failed(d)
        ELSE Done([d EXCEPT !.entries = @ \cup {newId}]))

\* AFTER DELETE: DELETE FROM rtree WHERE id = OLD.id
rtree_delete(d, oldId, oldG) ==
  Watch(d, "delete", oldG.type # "null",
        Done([d EXCEPT !.entries = @ \ {oldId}]))

\* a row statement is undone as a whole when a trigger of it fails
Commit(d, r) == IF r.res # SQLITE_OK THEN [d EXCEPT !.error = TRUE] ELSE r.db

\* ---- row statements of the application
\* Each evaluates the triggers' ST_IsEmpty, ST_MinX .. in the memory of the
\* moment and leaves the heap as the next statement will find it.
\* INSERT INTO table VALUES (k, g)
InsertRow(k, g) ==
  /\ k \notin DOMAIN db.rows
  /\ db' = Bind(Begin(db, "INSERT"), LAMBDA d :
             Commit(d, rtree_insert([d EXCEPT !.rows = Put(@, k, g)], k, g)))
  /\ heap' \in Heaps
  /\ UNCHANGED <<host, useHeader, fn, arg, run>>

\* UPDATE table SET id = k2 [, geometry = g2] WHERE id = k; ofGeom: the
\* statement names the geometry column.  It fails on an id another row has.
UpdateRow(k, k2, g2, ofGeom) ==
  /\ k \in DOMAIN db.rows
  /\ ofGeom \/ g2 = db.rows[k]
  /\ db' = Bind(Begin(db, "UPDATE"), LAMBDA d :
             IF k2 # k /\ k2 \in DOMAIN d.rows THEN [d EXCEPT !.error = TRUE]
             ELSE Bind(Done([d EXCEPT !.rows = Put(Without(@, {k}), k2, g2)]), LAMBDA r0 :
               Bind(IF ofGeom THEN Then(r0, LAMBDA x : rtree_update2(x, k, d.rows[k], k2, g2)) ELSE r0, LAMBDA r2 :
               Bind(Then(r2, LAMBDA x : rtree_update4(x, k, d.rows[k], k2, g2)), LAMBDA r4 :
               Bind(Then(r4, LAMBDA x : rtree_update5(x, k, d.rows[k], k2, g2)), LAMBDA r5 :
               Bind(IF ofGeom THEN Then(r5, LAMBDA x : rtree_update6(x, k, d.rows[k], k2, g2)) ELSE r5, LAMBDA r6 :
               Commit(d, IF ofGeom THEN Then(r6, LAMBDA x : rtree_update7(x, k, d.rows[k], k2, g2)) ELSE r6)))))))
  /\ heap' \in Heaps
  /\ UNCHANGED <<host, useHeader, fn, arg, run>>

\* DELETE FROM table WHERE id = k
DeleteRow(k) ==
  /\ k \in DOMAIN db.rows
  /\ db' = Bind(Begin(db, "DELETE"), LAMBDA d :
             Commit(d, rtree_delete([d EXCEPT !.rows = Without(@, {k})], k, d.rows[k])))
  /\ heap' \in Heaps
  /\ UNCHANGED <<host, useHeader, fn, arg, run>>

\* the statements the function stops at: 0 is none
Faults == 0..Len(AddStatements)

NextIndex ==
  \/ \E fault \in Faults : fnct_GPKGAddSpatialIndex(fault)
  \/ fnct_GPKGDropSpatialIndex
  \/ \E k \in Ids, g \in Geoms : InsertRow(k, g)
  \/ \E k \in Ids, k2 \in Ids, g2 \in Geoms, ofGeom \in BOOLEAN : UpdateRow(k, k2, g2, ofGeom)
  \/ \E k \in Ids : DeleteRow(k)

\* the database is followed on a little-endian host, in the build without
\* GPKG_ALLWAYS_USE_HEADER
InitIndex == Init /\ host = LITTLE_ENDIAN /\ ~useHeader

SpecIndex == InitIndex /\ [][NextIndex]_vars

\* ------------------------------------------------------------- claims
EnvCalls ==
  {"ST_MinX", "ST_MinY", "ST_MinZ", "ST_MinM",
   "ST_MaxX", "ST_MaxY", "ST_MaxZ", "ST_MaxM"}

\* the ordinate and the selector an envelope function asks for
OrdOf(f) ==
  CASE f \in {"ST_MinX", "ST_MaxX"} -> X
    [] f \in {"ST_MinY", "ST_MaxY"} -> Y
    [] f \in {"ST_MinZ", "ST_MaxZ"} -> Z
    [] OTHER -> M

MaxMinOf(f) ==
  IF f \in {"ST_MinX", "ST_MinY", "ST_MinZ", "ST_MinM"} THEN MIN ELSE MAX

\* the last call ran the WKB envelope walk / the WKB emptiness walk
EnvWalked == fn \in EnvCalls /\ run.core /\ run.walked
EmptyWalked == fn = "ST_IsEmpty" /\ run.core /\ run.walked

\* C1: in every envelope and emptiness query every byte the decoder reads
\* lies at an offset in [0, n_bytes); no read outside the blob is performed.
C1_ReadsInBounds == run.oob = {}

\* C2: during every query the cursor stays in 0..n_bytes and no step
\* decreases it.
C2_CursorBoundedMonotone ==
  run.core =>
    \A k \in 1..Len(run.trail) :
      /\ 0 <= run.trail[k]
      /\ run.trail[k] <= Len(arg.bytes)
      /\ k > 1 => run.trail[k - 1] <= run.trail[k]

\* C3: an envelope query for an ordinate the geometry's type code does not
\* carry fails ("ordinate not present") and never yields a number.
C3_AbsentOrdinateFails ==
  (EnvWalked /\ arg.family = "wellformed" /\ OrdPos(arg.geom, OrdOf(fn)) = 0)
    => (run.ret = 0 /\ run.result = SqlNull)

\* C4: an M query on a geometry of dimension 3 whose type code signals Z
\* only returns Absent, not the stored Z value.
C4_MOnZOnlyAbsent ==
  (EnvWalked /\ arg.family = "wellformed" /\ OrdOf(fn) = M
   /\ arg.geom.z /\ ~arg.geom.m)
    => run.result = SqlNull

\* C5: the emptiness test of a Polygon with one ring of zero points is Empty
\* (1); with one more interior ring after the same exterior ring it is
\* NotEmpty (0), not Malformed (-1).
C5_EmptyExteriorPolygon ==
  (EmptyWalked /\ arg.family = "emptyexterior")
    => run.ret = (IF Len(arg.geom.rings) = 1 THEN 1 ELSE 0)

\* the last argument is a MultiPoint of three 2-D points, two (NaN,NaN) and
\* one (1.0,2.0)
TwoNaNOnePoint ==
  /\ arg.family = "nanpoints"
  /\ Len(arg.geom.elems) = 3
  /\ Cardinality({k \in 1..3 : arg.geom.elems[k].pts[1] = PtNaN(2)}) = 2

\* C6: MAX X of a MultiPoint of two (NaN,NaN) points and one (1.0,2.0) point
\* is 1.0, wherever the (1.0,2.0) point stands.
C6_MaxXSkipsNaN ==
  (EnvWalked /\ fn = "ST_MaxX" /\ TwoNaNOnePoint)
    => run.result = SqlDouble(Dbl(1))

\* the emptiness test of tree e alone, as an element of a container that
\* requires the kind expected and is written in byte order ambient
ElementTest(e, ambient, expected) ==
  Bind(Enc(e, ambient), LAMBDA b :
    isEmptyWKBGeometry(b, Len(b), Start(b, heap.junk), ambient, expected).ret)

\* the tests of the elements of the last argument, a container
ElementTests ==
  [k \in 1..Len(arg.geom.elems) |->
     ElementTest(arg.geom.elems[k], arg.geom.bo, ElementKind(arg.geom.kind))]

\* C7: a MultiPoint, MultiLineString, MultiPolygon or GeometryCollection
\* tests Empty (1) exactly when its count is below one or every element
\* tests Empty, and NotEmpty (0) exactly when every element decodes and at
\* least one tests NotEmpty; a MultiPoint of two (NaN,NaN) points and one
\* (1.0,2.0) point is NotEmpty.
C7_ContainerEmptiness ==
  (EmptyWalked /\ arg.family \in {"collections", "nanpoints"})
    => Bind(ElementTests, LAMBDA t :
         /\ run.ret = 1 <=> (arg.geom.cnt < 1 \/ \A k \in DOMAIN t : t[k] = 1)
         /\ run.ret = 0 <=> /\ \A k \in DOMAIN t : t[k] >= 0
                            /\ \E k \in DOMAIN t : t[k] = 0
         /\ TwoNaNOnePoint => run.ret = 0)

\* a GeometryCollection of no elements has tested Empty
C7_Witness ==
  /\ EmptyWalked
  /\ arg.family = "collections"
  /\ arg.geom.kind = wkbGeometryCollection
  /\ arg.geom.cnt = 0
  /\ run.ret = 1

\* C8: if a nested element of a container does not decode (unknown kind,
\* kind the container does not take, count below one, truncated data,
\* ordinate not present), at any depth and position, the envelope query
\* returns no value and the emptiness query returns -1.
C8_NestedFailurePropagates ==
  (/\ run.core
   /\ run.walked
   /\ arg.family \in {"defect:unknown", "defect:kind", "defect:count", "defect:truncated", "defect:ordinate"}
   /\ arg.family = "defect:ordinate" => (fn \in EnvCalls /\ OrdOf(fn) = Z))
    => IF fn = "ST_IsEmpty"
         THEN run.ret = -1 /\ run.result = SqlInt(-1)
       ELSE run.ret = 0 /\ run.result = SqlNull

\* what readGPKGGeometryEnv does without GPKG_ALLWAYS_USE_HEADER
DistrustEnv(p_blob, ordinate, maxmin) ==
  Bind(skipGPKGHeader(p_blob, Len(p_blob), Start(p_blob, heap.junk)), LAMBDA h :
    IF h.ret = 0 THEN h
    ELSE readWKBGeometryEnv(p_blob, Len(p_blob), h.st, endian, ordinate, maxmin, wkbGeometry))

\* the SQL result of an envelope function whose core returned r
SqlOf(r) == IF r.ret # 0 THEN SqlDouble(r.st.res) ELSE SqlNull

\* C9: for a blob whose header envelope was computed from its body, the
\* header-trusting build returns what the header-distrusting build returns,
\* for each ordinate and for MIN and MAX.
C9_ModesAgree ==
  (/\ useHeader
   /\ fn \in EnvCalls
   /\ run.core
   /\ arg.family = "wellformed"
   /\ arg.envelopeType >= 1)
    => run.result = SqlOf(DistrustEnv(arg.bytes, OrdOf(fn), MaxMinOf(fn)))

\* C10: whenever the header step hands over to the WKB walker the cursor is
\* at the first byte of the WKB body, 8 plus the envelope's bytes; the cursor
\* readGPKGHeaderEnv leaves when it returns -1 is the one skipGPKGHeader
\* leaves on the same blob.
C10_HandOverAtBody ==
  (fn \in EnvCalls /\ run.core /\ run.walked)
    => /\ run.hdrIndex = 8 + EnvelopeBytes(arg.envelopeType)
       /\ (useHeader /\ run.headerOk = -1)
            => run.hdrIndex = skipGPKGHeader(arg.bytes, Len(arg.bytes), Start(arg.bytes, heap.junk)).st.index

\* C11: with GPKG_ALLWAYS_USE_HEADER, an envelope query on a blob whose
\* header empty flag is set returns no number and does not enter the WKB
\* walker.
C11_EmptyFlagNoValue ==
  (useHeader /\ fn \in EnvCalls /\ run.core /\ arg.empty)
    => (run.result = SqlNull /\ ~run.walked)

\* the bytes of a blob with every double of its envelope replaced by d
StaleEnvelope(bytes, envelopeType, d) ==
  [k \in 1..Len(bytes) |->
     IF k > 8 /\ k <= 8 + EnvelopeBytes(envelopeType)
       THEN d[((k - 9) % 8) + 1]
     ELSE bytes[k]]

C13_EmptinessFromBody ==
  (~useHeader /\ fn = "ST_IsEmpty" /\ run.core /\ arg.family = "emptyflag")
    => run.ret = ElementTest(arg.geom, arg.hbo, wkbGeometry)

\* C14: without GPKG_ALLWAYS_USE_HEADER, a blob with a wrong magic byte, a
\* version other than 0 or an envelope kind 5, 6 or 7 makes every envelope
\* query fail and the emptiness query return -1, and the WKB walker is not
\* entered.
C14_BadHeaderRejected ==
  (~useHeader /\ run.core /\ arg.family = "badheader")
    => /\ ~run.walked
       /\ IF fn = "ST_IsEmpty"
            THEN run.ret = -1 /\ run.result = SqlInt(-1)
          ELSE run.ret = 0 /\ run.result = SqlNull

\* an envelope query has refused a header of envelope kind 5
C14_Witness ==
  /\ ~useHeader
  /\ fn = "ST_MaxX"
  /\ run.core
  /\ arg.family = "badheader"
  /\ arg.envelopeType = 5
  /\ run.hdrIndex = 8
  /\ run.result = SqlNull

\* what the core of function f returns on the bytes p_blob
CoreReturn(f, p_blob) ==
  IF f = "ST_IsEmpty"
    THEN isEmptyGPKGGeometry(p_blob, Len(p_blob), Start(p_blob, heap.junk), endian, wkbGeometry).ret
  ELSE readGPKGGeometryEnv(p_blob, Len(p_blob), Start(p_blob, heap.junk), endian, OrdOf(f), MaxMinOf(f), wkbGeometry).ret

\* the last call asked a well-formed geometry for an ordinate it does not
\* carry, or met an element of a kind its container does not take
AbsentPair ==
  /\ run.core
  /\ \/ fn \in EnvCalls /\ arg.family = "wellformed" /\ OrdPos(arg.geom, OrdOf(fn)) = 0
     \/ arg.family = "defect:kind"

\* blobs that are malformed: a spoilt header, an unknown kind code, a
\* Polygon of zero rings
MalformedSamples ==
  {b.bytes : b \in BadHeader}
  \cup {Plain(TMulti(wkbGeometryCollection, XY, <<TPoint(XY, Pt(2, 1)), g>>), "").bytes : g \in {UnknownKind, TPolygon(XY, <<>>)}}

\* C15: the value readGPKGGeometryEnv or isEmptyGPKGGeometry returns for an
\* Absent outcome (ordinate not present, kind other than expected) is never
\* the value it returns for a Malformed blob under the same query.
C15_AbsentIsNotMalformed ==
  AbsentPair => \A b \in MalformedSamples : CoreReturn(fn, b) # run.ret

\* the core of the last call reported success
Decoded ==
  run.core /\ (IF fn = "ST_IsEmpty" THEN run.ret >= 0 ELSE run.ret # 0)

\* C16: each of the nine SQL functions returns NULL when its argument is not
\* a blob, when decoding fails or when the ordinate is absent, and a value
\* other than NULL only after a successful decode.
C16_NullUnlessDecoded ==
  fn # "" =>
    /\ arg.type # "blob" => run.result = SqlNull
    /\ ~Decoded => run.result = SqlNull
    /\ (fn \in EnvCalls /\ arg.family = "wellformed" /\ OrdPos(arg.geom, OrdOf(fn)) = 0)
         => run.result = SqlNull
    /\ run.result # SqlNull => Decoded

\* C17 as stated: the decoder is never entered with fewer than 29 bytes, by
\* any of the nine SQL functions.
C17_NeverBelow29 == run.core => Len(arg.bytes) >= 29

\* C17: the decoder is entered exactly for a blob of at least 29 bytes by
\* the eight envelope functions and of at least 13 bytes by ST_IsEmpty.
C17_MinimumLength ==
  fn # "" =>
    (run.core <=> /\ arg.type = "blob"
                  /\ Len(arg.bytes) >= (IF fn = "ST_IsEmpty" THEN 13 ELSE 29))

\* ST_IsEmpty has entered the decoder with a blob of 13 bytes
C17_Witness == fn = "ST_IsEmpty" /\ run.core /\ Len(arg.bytes) = 13

\* the last call ran the WKB envelope walk from the first byte of the body
WalkedFromBody ==
  EnvWalked /\ run.hdrIndex = 8 + EnvelopeBytes(arg.envelopeType)

\* C18: on a well-formed Point, MIN and MAX of a present ordinate are that
\* coordinate of the point; on a well-formed LineString of n >= 1 points MIN
\* is the least and MAX the greatest value of the ordinate over the points,
\* so MIN <= MAX; for dimension 2, 3 and 4 and every present ordinate.
C18_PointAndLineExtremes ==
  (/\ WalkedFromBody
   /\ arg.family = "wellformed"
   /\ arg.geom.kind \in {wkbPoint, wkbLineString}
   /\ OrdPos(arg.geom, OrdOf(fn)) > 0)
    => Bind(OrdPos(arg.geom, OrdOf(fn)), LAMBDA j :
         /\ run.ret = 1
         /\ run.result = SqlDouble(Extreme(arg.geom.pts, j, MaxMinOf(fn), 1))
         /\ arg.geom.kind = wkbPoint => run.result = SqlDouble(arg.geom.pts[1][j])
         /\ ~DblLess(Extreme(arg.geom.pts, j, MAX, 1), Extreme(arg.geom.pts, j, MIN, 1)))

\* MIN M of an XYM LineString of two points, the second the lesser, has been
\* read
C18_Witness ==
  /\ WalkedFromBody
  /\ fn = "ST_MinM"
  /\ arg.family = "wellformed"
  /\ arg.geom.kind = wkbLineString
  /\ arg.geom.m /\ ~arg.geom.z
  /\ Len(arg.geom.pts) = 2
  /\ run.result = SqlDouble(Dbl(3))

RECURSIVE FlipAll(_)
\* tree g with its record and every nested record in the other byte order
FlipAll(g) ==
  [g EXCEPT !.bo = 1 - @, !.elems = [k \in 1..Len(g.elems) |-> FlipAll(g.elems[k])]]

\* the re-encodings of tree g: the other byte order for its own record, for
\* all records, for one element and what it holds
Reencodings(g) ==
  {[g EXCEPT !.bo = 1 - @], FlipAll(g)}
  \cup {[g EXCEPT !.elems[k] = FlipAll(@)] : k \in 1..Len(g.elems)}

\* the bytes of the last argument with its WKB body replaced by the record
\* of tree g
WithBody(g) ==
  SubSeq(arg.bytes, 1, 8 + EnvelopeBytes(arg.envelopeType)) \o Enc(g, arg.hbo)

\* the return value and SQL result of function f on the bytes p_blob
Answer(f, p_blob) ==
  IF f = "ST_IsEmpty"
    THEN Bind(isEmptyGPKGGeometry(p_blob, Len(p_blob), Start(p_blob, heap.junk), endian, wkbGeometry), LAMBDA r :
           <<r.ret, SqlInt(r.ret)>>)
  ELSE Bind(readGPKGGeometryEnv(p_blob, Len(p_blob), Start(p_blob, heap.junk), endian, OrdOf(f), MaxMinOf(f), wkbGeometry), LAMBDA r :
         <<r.ret, SqlOf(r)>>)

\* C19: re-encoding a geometry in the other byte order, at the top level or
\* in any nested element, changes neither the emptiness result nor any
\* envelope value, on a host of either byte order.
C19_ByteOrderStable ==
  (run.core /\ arg.family \in {"wellformed", "nanpoints"})
    => \A g \in Reencodings(arg.geom) :
         Bind(WithBody(g), LAMBDA b : Answer(fn, b) = <<run.ret, run.result>>)

\* C20: the outcome of a query is a function of the blob's bytes and the
\* query: the same call made again gives the same return value and result,
\* whatever the host's byte order, the memory outside the blob and the
\* uninitialised result storage have become.
C20_SameCallSameOutcome ==
  [][Again => (run'.ret = run.ret /\ run'.result = run.result)]_vars

\* C21: every envelope or emptiness query returns, and at no time are there
\* more readWKBGeometryEnv / isEmptyWKBGeometry frames on the stack than
\* the blob has bytes.
C21_TerminatesWithinDepth ==
  run.core => ~run.diverged /\ run.deep <= Len(arg.bytes)

\* the offset after the count of a top-level LineString, or after the count
\* of the first ring of a top-level Polygon, of a blob without envelope
FirstCountEnd == IF arg.geom.kind = wkbPolygon THEN 21 ELSE 17

\* the count read at FirstCountEnd - 4
FirstCount ==
  IF arg.geom.kind = wkbPolygon THEN arg.geom.rings[1].cnt ELSE arg.geom.cnt

\* C28: a LineString or ring with a count c >= 1 whose c*d*8 coordinate
\* bytes do not fit in the bytes that remain after the count is a failure,
\* also when c*d*8 overflows 32 bits: it is never NotEmpty, and the cursor
\* neither goes back nor stays.
C28_OversizedLineFails ==
  (/\ EmptyWalked
   /\ arg.family \in {"overflow", "truncated", "wellformed"}
   /\ arg.envelopeType = 0
   /\ ~arg.geom.srid
   /\ arg.geom.kind \in {wkbLineString, wkbPolygon}
   /\ arg.geom.kind = wkbPolygon => arg.geom.cnt >= 2
   /\ Len(arg.bytes) >= FirstCountEnd
   /\ FirstCount >= 1
   /\ FirstCount > (Len(arg.bytes) - FirstCountEnd) \div (Dim(arg.geom.z, arg.geom.m) * 8))
  => /\ run.ret = -1
     /\ run.index = FirstCountEnd

\* the families of blobs that end with the last byte their record holds
WholeRecord ==
  {"wellformed", "collections", "nanpoints", "emptyexterior", "overflow"}

\* C22: when an emptiness walk or an envelope walk of a geometry record
\* returns without failure, the cursor is at the first byte after the
\* record's encoding, whichever ordinate was read and whichever element
\* proved non-emptiness.
C22_CursorAtRecordEnd ==
  (/\ Decoded
   /\ run.walked
   /\ run.hdrIndex = 8 + EnvelopeBytes(arg.envelopeType)
   /\ arg.family \in WholeRecord)
  => run.index = Len(arg.bytes)

\* C25: on a Polygon of n >= 1 rings an X or Y envelope query returns the
\* extreme over the first ring only, a Z or M query the extreme over the
\* points of all rings; with no ring, or with a later ring of no points or
\* of truncated data, the query fails.
C25_PolygonRings ==
  (/\ WalkedFromBody
   /\ arg.family \in {"rings", "rings:bad", "rings:wrapped"}
   /\ OrdPos(arg.geom, OrdOf(fn)) > 0)
  => IF arg.family = "rings"
       THEN Bind(OrdPos(arg.geom, OrdOf(fn)), LAMBDA j :
              /\ run.ret = 1
              /\ OrdOf(fn) < Z =>
                   run.result = SqlDouble(Extreme(arg.geom.rings[1].pts, j, MaxMinOf(fn), 1))
              /\ OrdOf(fn) >= Z =>
                   run.result = SqlDouble(Extreme(AllPoints(arg.geom), j, MaxMinOf(fn), 1)))
     ELSE run.ret = 0 /\ run.result = SqlNull

\* the byte order a blob of Markers was written from
MarkerOrder == IF arg.family = "marker:0" THEN 0 ELSE 1

\* C26: a byte-order byte of 0 or 1 sets the order of its record, any other
\* value is accepted and leaves the order as it is; an element starts from
\* the order of its parent, the top-level record from the order of the host,
\* whatever the byte-order bit of the header says.
C26_ByteOrderByte ==
  (/\ run.core
   /\ run.walked
   /\ arg.family \in {"marker:0", "marker:1"}
   /\ fn = "ST_IsEmpty" \/ OrdOf(fn) < Z)
  => IF arg.geom.bo \in {0, 1} \/ MarkerOrder = endian
       THEN /\ Decoded
            /\ run.index = Len(arg.bytes)
            /\ fn = "ST_IsEmpty" => run.ret = 0
            /\ fn \in EnvCalls =>
                 run.result = SqlDouble(Extreme(AllPoints(arg.geom), OrdPos(arg.geom, OrdOf(fn)), MaxMinOf(fn), 1))
     ELSE ~Decoded

\* MIN X of a MultiPoint has been read whose records all carry the byte 2
\* and are written in the host's order, the header naming the other order
C26_Witness ==
  /\ fn = "ST_MinX"
  /\ run.core /\ run.walked
  /\ arg.family \in {"marker:0", "marker:1"}
  /\ arg.geom.kind = wkbMultiPoint
  /\ arg.geom.bo = 2
  /\ \A k \in 1..2 : arg.geom.elems[k].bo = 2
  /\ MarkerOrder = endian
  /\ arg.hbo # endian
  /\ run.result = SqlDouble(Dbl(1))

\* C27: the dimension read from a type code is 2 + Z + M, Z being bit 31 or
\* the thousands 1 or 3 of the low 16 bits, M bit 30 or the thousands 2 or
\* 3; the kind is the low 16 bits modulo 1000; 4 bytes are skipped after
\* the code exactly when bit 29 is set; a kind outside 1..7 fails; and both
\* walks read the same dimension and kind.
C27_TypeCode ==
  (/\ run.core
   /\ run.walked
   /\ arg.family = "typecode"
   /\ fn = "ST_IsEmpty" \/ OrdPos(arg.geom, OrdOf(fn)) > 0)
  => IF arg.geom.kind \in 1..7
       THEN /\ Decoded
            /\ run.index = Len(arg.bytes)
            /\ fn = "ST_IsEmpty" => run.ret = 0
            /\ fn \in EnvCalls =>
                 run.result = SqlDouble(arg.geom.pts[1][OrdPos(arg.geom, OrdOf(fn))])
     ELSE ~Decoded

\* MAX M has been read from a Point whose type code sets bit 31 and has
\* 2001 in its low bits
C27_Witness ==
  /\ fn = "ST_MaxM"
  /\ run.core /\ run.walked
  /\ arg.family = "typecode"
  /\ arg.bytes[13] = 128
  /\ arg.bytes[10] + 256 * arg.bytes[11] = 2001
  /\ run.index = 45
  /\ run.result = SqlDouble(Dbl(4))

\* ---- spatial index
\* the index of d is in place: the rtree table, the seven triggers, the
\* gpkg_extensions row
Installed(d) == d.objects = Triggers \cup {"rtree"} /\ d.ext

\* the rtree holds an entry for id k exactly when the table holds a row k
\* whose geometry is not NULL and has ST_IsEmpty = 0
IndexConsistent ==
  db.entries = {k \in DOMAIN db.rows : NotEmpty(db.rows[k])}

RowStatements == {"INSERT", "UPDATE", "DELETE"}

\* C29: right after a successful GPKG_AddSpatialIndex the rtree holds an
\* entry for exactly the rows whose geometry is not NULL and not empty
C29_PopulatedLikeInsertTrigger ==
  (db.last = "GPKG_AddSpatialIndex" /\ ~db.error) => IndexConsistent

\* C30: a GPKG_AddSpatialIndex that fails at any of its statements reports
\* the error, stops at that statement, and leaves the rtree table, the
\* triggers, the gpkg_extensions row and the rows as they were before the
\* call
C30_FailedAddUndone ==
  [][(db'.last = "GPKG_AddSpatialIndex" /\ db'.error) =>
       /\ db'.objects = db.objects
       /\ db'.ext = db.ext
       /\ db'.entries = db.entries
       /\ db'.rows = db.rows
       /\ db'.stmts \in 1..Len(AddStatements)]_vars

\* the populate statement, the last one, failed with rows in the table:
\* nothing of the call is left, the gpkg_extensions row included
C30_Witness ==
  /\ db.last = "GPKG_AddSpatialIndex"
  /\ db.error
  /\ db.stmts = Len(AddStatements)
  /\ db.objects = {}
  /\ ~db.ext
  /\ DOMAIN db.rows # {}

C23_TriggersKeepConsistent ==
  [][(Installed(db) /\ IndexConsistent /\ db'.last \in RowStatements) =>
       IndexConsistent']_vars
====
